---- MODULE Spec2Model ----
(***************************************************************************)
(* The NSGA-II optimizer of train_optimization/optimization.py             *)
(* (MultiObjectiveOptimizer): the domination test, the non-dominated sort, *)
(* the crowding distance and the evolution driver nsga2_optimization.      *)
(*                                                                         *)
(* Conventions.  Python lists are TLA+ sequences; the INDICES the code     *)
(* stores in lists (members of fronts, sorted_indices) keep their 0-based  *)
(* values, so element i of a Python list L is L[i + 1] here.  Floats are   *)
(* modelled by exact arithmetic: objective values by integers, crowding    *)
(* distances by reduced fractions or infinity.  An exception that leaves   *)
(* a function is a result record whose exc field names it.                 *)
(***************************************************************************)
EXTENDS Integers, Sequences, FiniteSets, TLC

VARIABLES
    pc,                \* position: of the driver, or "call"/"return" of a function under test
    arg,               \* the arguments of the function under test
    ret,               \* what the function under test returned or raised
    trains,            \* list(Train.objects.filter(is_operational=True)), as train ids
    routes,            \* list(Route.objects.filter(is_active=True)), as route ids
    population_size,   \* self.population_size
    generations,       \* self.generations
    heap,              \* the schedule-entry dicts, by identity (position in this sequence)
    population,        \* the list of individuals, each the list of its entries' identities
    generation,        \* the loop variable of the evolution loop
    objective_values,  \* the objective vectors of the current evaluation
    fronts,            \* the fronts of the current sort
    new_population,    \* the survivors of the current selection
    result,            \* what nsga2_optimization returned or raised
    log,               \* the phases the driver has completed, in order
    db,                \* the OptimizationTask rows, by task_id
    broker,            \* the run_optimization_task messages waiting in the Celery broker
    workers,           \* the executions of run_optimization_task in progress
    dispatched,        \* the calls of run_optimization_task.delay, in order, with their executions
    response,          \* the last HTTP response of the task view set
    environment,       \* the TransportationEnvironment (DQNOptimizer.environment), or "None"
    agent,             \* the DQNAgent (DQNOptimizer.agent), or "None"
    dqn                \* the parameters, locals, model file and result of DQNOptimizer.optimize

harnessVars == <<arg, ret>>
driverVars == <<trains, routes, population_size, generations, heap, population,
                generation, objective_values, fronts, new_population, result, log>>
taskVars == <<db, broker, workers, dispatched, response>>
dqnVars == <<environment, agent, dqn>>
outerVars == <<taskVars, dqnVars>>
vars == <<pc, arg, ret, trains, routes, population_size, generations, heap,
          population, generation, objective_values, fronts, new_population,
          result, log, db, broker, workers, dispatched, response,
          environment, agent, dqn>>

(***************************************************************************)
(* Bounds of the model.                                                    *)
(***************************************************************************)
\* objective values of the functions under test are drawn from 0..MaxVal
MaxVal == 2
\* the non-dominated sort is run on lists of at most MaxSortLen vectors
MaxSortLen == 3
\* the crowding distance is computed for fronts of at most MaxFrontLen vectors
MaxFrontLen == 3

\* the objective tuple built by _evaluate_objectives has four components
NumObjectives == 4

\* the components used for the lists given to the sort and the crowding distance
ShortDims == {1, 2}

Min(a, b) == IF a <= b THEN a ELSE b

\* all sequences over S of length lo..hi
SeqsOf(S, lo, hi) == UNION {[1..n -> S] : n \in lo..hi}

\* range(n) as a list
Range(n) == [k \in 1..n |-> k - 1]

(***************************************************************************)
(* _dominates                                                              *)
(***************************************************************************)
\* zip(obj1, obj2): pairs up to the shorter length
Zip(obj1, obj2) ==
    [k \in 1..Min(Len(obj1), Len(obj2)) |-> <<obj1[k], obj2[k]>>]

RECURSIVE AllLt(_)
AllLt(pairs) ==
    IF pairs = <<>> THEN TRUE
    ELSE IF ~(Head(pairs)[1] < Head(pairs)[2]) THEN FALSE
    ELSE AllLt(Tail(pairs))

FirstLeq(pairs) ==
    IF pairs = <<>> THEN TRUE
    ELSE Head(pairs)[1] <= Head(pairs)[2]

\* all(o1 <= o2 for o1, o2 in zip(obj1, obj2))
RECURSIVE AllLeq(_)
AllLeq(pairs) ==
    IF pairs = <<>> THEN TRUE
    ELSE IF ~(Head(pairs)[1] <= Head(pairs)[2]) THEN FALSE
    ELSE AllLeq(Tail(pairs))

RECURSIVE AnyLeq(_)
AnyLeq(pairs) ==
    IF pairs = <<>> THEN FALSE
    ELSE IF Head(pairs)[1] <= Head(pairs)[2] THEN TRUE
    ELSE AnyLeq(Tail(pairs))

\* any(o1 < o2 for o1, o2 in zip(obj1, obj2))
RECURSIVE AnyLt(_)
AnyLt(pairs) ==
    IF pairs = <<>> THEN FALSE
    ELSE IF Head(pairs)[1] < Head(pairs)[2] THEN TRUE
    ELSE AnyLt(Tail(pairs))

Dominates(obj1, obj2) ==
    LET better_in_all == AllLeq(Zip(obj1, obj2))
        better_in_one == AnyLt(Zip(obj1, obj2))
    IN  better_in_all /\ better_in_one

(***************************************************************************)
(* _non_dominated_sort                                                     *)
(***************************************************************************)
\* dominated_solutions[i] after the first pass: the j # i that i dominates, ascending
DominatedSolutions(objective_values_, i) ==
    SelectSeq(Range(Len(objective_values_)),
              LAMBDA j : i # j /\ Dominates(objective_values_[i + 1], objective_values_[j + 1]))

\* domination_count[i] after the first pass (the elif: counted only when i does not dominate j)
DominationCount(objective_values_, i) ==
    Cardinality({j \in 0..(Len(objective_values_) - 1) :
        /\ i # j
        /\ ~Dominates(objective_values_[i + 1], objective_values_[j + 1])
        /\ Dominates(objective_values_[j + 1], objective_values_[i + 1])})

\* fronts[0] after the first pass
FirstFront(objective_values_) ==
    SelectSeq(Range(Len(objective_values_)),
              LAMBDA i : DominationCount(objective_values_, i) = 0)

\* the j visited by the two inner loops over one front, in order
RECURSIVE VisitOrder(_, _)
VisitOrder(front, dominated_solutions) ==
    IF front = <<>> THEN <<>>
    ELSE dominated_solutions[Head(front) + 1] \o VisitOrder(Tail(front), dominated_solutions)

\* the inner loops: decrement the count of every j visited, append j when it reaches 0
RECURSIVE ProcessFront(_, _, _)
ProcessFront(visits, domination_count, next_front) ==
    IF visits = <<>> THEN [domination_count |-> domination_count, next_front |-> next_front]
    ELSE LET j == Head(visits)
             c == domination_count[j + 1] - 1
         IN  ProcessFront(Tail(visits),
                          [domination_count EXCEPT ![j + 1] = c],
                          IF c = 0 THEN Append(next_front, j) ELSE next_front)

\* while fronts[current_front]: ...  (an index past the end of fronts raises IndexError)
RECURSIVE PeelFronts(_, _, _, _)
PeelFronts(fronts_, domination_count, dominated_solutions, current_front) ==
    IF current_front + 1 > Len(fronts_)
    THEN [exc |-> "IndexError", value |-> <<>>]
    ELSE IF fronts_[current_front + 1] = <<>>
    THEN [exc |-> "none", value |-> fronts_]
    ELSE LET step == ProcessFront(VisitOrder(fronts_[current_front + 1], dominated_solutions),
                                  domination_count, <<>>)
         IN  PeelFronts(IF step.next_front # <<>>
                            THEN Append(fronts_, step.next_front) ELSE fronts_,
                        step.domination_count, dominated_solutions, current_front + 1)

NonDominatedSort(objective_values_) ==
    LET n == Len(objective_values_)
        domination_count == [k \in 1..n |-> DominationCount(objective_values_, k - 1)]
        dominated_solutions == [k \in 1..n |-> DominatedSolutions(objective_values_, k - 1)]
    IN  PeelFronts(<<FirstFront(objective_values_)>>, domination_count,
                   dominated_solutions, 0)

(***************************************************************************)
(* _calculate_crowding_distance                                            *)
(***************************************************************************)
\* float("inf") and 0.0; a finite distance is the reduced fraction num/den
Infinity == [inf |-> TRUE, num |-> 0, den |-> 1]
Zero == [inf |-> FALSE, num |-> 0, den |-> 1]

RECURSIVE GCD(_, _)
GCD(a, b) == IF b = 0 THEN a ELSE GCD(b, a % b)

Fraction(num, den) ==
    LET g == GCD(num, den)
    IN  [inf |-> FALSE, num |-> num \div g, den |-> den \div g]

\* d = gap / obj_range  (overwrites the distance)
SetDistance(d, gap, obj_range) == Fraction(gap, obj_range)

\* d += gap / obj_range  (inf + x = inf)
AddDistance(d, gap, obj_range) ==
    IF d.inf THEN d
    ELSE Fraction(d.num * obj_range + gap * d.den, d.den * obj_range)

\* the order of the floats a and b
DistanceLess(a, b) ==
    IF a.inf THEN FALSE
    ELSE IF b.inf THEN TRUE
    ELSE a.num * b.den < b.num * a.den

\* sorted() is stable: x goes before the first element that is strictly after it
RECURSIVE InsertStable(_, _, _)
InsertStable(sorted, x, before) ==
    IF sorted = <<>> THEN <<x>>
    ELSE IF before[x, Head(sorted)] THEN <<x>> \o sorted
    ELSE <<Head(sorted)>> \o InsertStable(Tail(sorted), x, before)

\* sorted(range(n), key=...), where before[x, y] says key(x) sorts strictly before key(y)
RECURSIVE StableSorted(_, _)
StableSorted(n, before) ==
    IF n = 0 THEN <<>>
    ELSE InsertStable(StableSorted(n - 1, before), n - 1, before)

\* sorted(range(n), key=lambda x: objectives[x][m])
SortedByObjective(objectives, m) ==
    StableSorted(Len(objectives),
                 [x, y \in 0..(Len(objectives) - 1) |->
                     objectives[x + 1][m] < objectives[y + 1][m]])

\* for i in range(1, n - 1): distances[sorted_indices[i]] += ...
RECURSIVE InteriorLoop(_, _, _, _, _, _)
InteriorLoop(objectives, m, sorted_indices, obj_range, distances, i) ==
    IF i >= Len(objectives) - 1 THEN distances
    ELSE LET gap == objectives[sorted_indices[i + 2] + 1][m]
                    - objectives[sorted_indices[i] + 1][m]
             at == sorted_indices[i + 1] + 1
         IN  InteriorLoop(objectives, m, sorted_indices, obj_range,
                 [distances EXCEPT ![at] = AddDistance(distances[at], gap, obj_range)],
                 i + 1)

\* for m in range(n_objectives): ...
RECURSIVE ObjectiveLoop(_, _, _)
ObjectiveLoop(objectives, distances, m) ==
    IF m > Len(objectives[1]) THEN distances
    ELSE LET n == Len(objectives)
             sorted_indices == SortedByObjective(objectives, m)
             bounded == [distances EXCEPT ![sorted_indices[1] + 1] = Infinity,
                                          ![sorted_indices[n] + 1] = Infinity]
             obj_range == objectives[sorted_indices[n] + 1][m]
                          - objectives[sorted_indices[1] + 1][m]
         IN  ObjectiveLoop(objectives,
                 IF obj_range > 0
                 THEN InteriorLoop(objectives, m, sorted_indices, obj_range, bounded, 1)
                 ELSE bounded,
                 m + 1)

CalculateCrowdingDistance(objectives) ==
    LET n == Len(objectives)
    IN  IF n <= 2 THEN [k \in 1..n |-> Infinity]
        ELSE ObjectiveLoop(objectives, [k \in 1..n |-> Zero], 1)

(***************************************************************************)
(* The functions under test, each applied to arguments drawn from bounded  *)
(* sets.  The driver's variables stay at their initial (empty) values.     *)
(***************************************************************************)
DriverIdle ==
    /\ trains = {} /\ routes = {}
    /\ population_size = 0 /\ generations = 0
    /\ heap = <<>> /\ population = <<>> /\ generation = 0
    /\ objective_values = <<>> /\ fronts = <<>> /\ new_population = <<>>
    /\ result = [exc |-> "none", value |-> "none"]
    /\ log = <<>>

\* no task exists and nothing has been requested or dispatched
NoResponse == [request |-> "none"]
TasksIdle ==
    /\ db = <<>> /\ broker = {} /\ workers = {} /\ dispatched = <<>>
    /\ response = NoResponse

\* no DQNOptimizer exists
DqnIdle == environment = "None" /\ agent = "None" /\ dqn = "None"

OuterIdle == TasksIdle /\ DqnIdle

Values == 0..MaxVal
Vectors(n) == [1..n -> Values]
ShortVectors == [ShortDims -> Values]

\* ---- _dominates(obj1, obj2) on equal-length tuples of up to four objectives
InitDominates ==
    /\ pc = "call"
    /\ arg \in UNION {Vectors(n) \X Vectors(n) : n \in 0..NumObjectives}
    /\ ret = "none"
    /\ DriverIdle /\ OuterIdle

CallDominates ==
    /\ pc = "call"
    /\ pc' = "return"
    /\ ret' = [ab |-> Dominates(arg[1], arg[2]),
               ba |-> Dominates(arg[2], arg[1]),
               aa |-> Dominates(arg[1], arg[1])]
    /\ UNCHANGED <<arg, driverVars, outerVars>>

NextDominates == CallDominates

SpecDominates == InitDominates /\ [][NextDominates]_vars

\* ---- _non_dominated_sort(objective_values)
InitSort ==
    /\ pc = "call"
    /\ arg \in SeqsOf(ShortVectors, 0, MaxSortLen)
    /\ ret = "none"
    /\ DriverIdle /\ OuterIdle

CallSort ==
    /\ pc = "call"
    /\ pc' = "return"
    /\ ret' = NonDominatedSort(arg)
    /\ UNCHANGED <<arg, driverVars, outerVars>>

NextSort == CallSort

SpecSort == InitSort /\ [][NextSort]_vars

\* ---- _calculate_crowding_distance(objectives)
InitCrowding ==
    /\ pc = "call"
    /\ arg \in SeqsOf(ShortVectors, 0, MaxFrontLen)
    /\ ret = "none"
    /\ DriverIdle /\ OuterIdle

CallCrowding ==
    /\ pc = "call"
    /\ pc' = "return"
    /\ ret' = CalculateCrowdingDistance(arg)
    /\ UNCHANGED <<arg, driverVars, outerVars>>

NextCrowding == CallCrowding

SpecCrowding == InitCrowding /\ [][NextCrowding]_vars

(***************************************************************************)
(* The data layer: the rows of Train and Route the optimizer reads.        *)
(***************************************************************************)
TrainIds == {1}
RouteIds == {1}
Capacity == [t \in TrainIds |-> 51]
FuelEfficiency == [t \in TrainIds |-> 2]
MaintenanceCostPerKm == [t \in TrainIds |-> 1]
Distance == [r \in RouteIds |-> 4]
EstimatedTravelTime == [r \in RouteIds |-> 30]

\* parameters.get("time_horizon", 24), as given by the caller
Parameters == [time_horizon |-> 2]
\* the minute of departure, random.randint(0, 59), is drawn from this subset
Minutes == {0}

\* self.population_size and self.generations are drawn from 0..MaxPop and 0..MaxGen
MaxPop == 2
MaxGen == 2
\* the number of trips of a new individual, random.randint(10, 30), scaled down
MinTrips == 1
MaxTrips == 2
\* random.randint(50, train.capacity)
MinLoad == 50
\* timedelta(minutes=random.randint(-30, 30))
MaxShift == 30

LCM(a, b) == (a * b) \div GCD(a, b)

RECURSIVE LCMUpTo(_)
LCMUpTo(n) == IF n <= 1 THEN 1 ELSE LCM(n, LCMUpTo(n - 1))

RECURSIVE LCMOf(_, _)
LCMOf(f, S) ==
    IF S = {} THEN 1
    ELSE LET x == CHOOSE y \in S : TRUE IN LCM(f[x], LCMOf(f, S \ {x}))

\* The integer units of the objectives: fuel in 1/EffScale litres, cost in
\* 1/(2*EffScale), on-time in 1/TripScale percent, utilization in
\* 1/(CapScale*TripScale) percent; every quotient below is exact.
EffScale == LCMOf(FuelEfficiency, TrainIds)
CapScale == LCMOf(Capacity, TrainIds)
TripScale == LCMUpTo(MaxTrips)

RECURSIVE SumSeq(_)
SumSeq(s) == IF s = <<>> THEN 0 ELSE Head(s) + SumSeq(Tail(s))

(***************************************************************************)
(* _initialize_population                                                  *)
(***************************************************************************)
\* one schedule dict, as the inner loop builds it
NewSchedules(trains_, routes_, time_horizon) ==
    UNION {{[train_id |-> t, route_id |-> r, departure_time |-> 60 * h + m,
             arrival_time |-> 60 * h + m + EstimatedTravelTime[r],
             passenger_load |-> load] :
                r \in routes_, h \in 0..(time_horizon - 2), m \in Minutes,
                load \in MinLoad..Capacity[t]} : t \in trains_}

\* the individuals' schedule lists, stored: the dicts go to the heap in order
RECURSIVE Allocate(_, _, _)
Allocate(lists, heap_, population_) ==
    IF lists = <<>> THEN [heap |-> heap_, population |-> population_]
    ELSE Allocate(Tail(lists), heap_ \o Head(lists),
                  Append(population_,
                         [k \in 1..Len(Head(lists)) |-> Len(heap_) + k]))

\* The outcomes of _initialize_population.  With at least one individual to
\* build, random.choice of an empty list raises IndexError, random.randint(0,
\* time_horizon - 2) raises ValueError when time_horizon < 2, and
\* random.randint(50, train.capacity) raises ValueError for a train chosen
\* with capacity < 50.
InitializePopulation(trains_, routes_, time_horizon, size) ==
    IF size >= 1 /\ (trains_ = {} \/ routes_ = {})
    THEN {[exc |-> "IndexError", heap |-> <<>>, population |-> <<>>]}
    ELSE IF size >= 1 /\ time_horizon < 2
    THEN {[exc |-> "ValueError", heap |-> <<>>, population |-> <<>>]}
    ELSE {LET stored == Allocate(lists, <<>>, <<>>)
          IN  [exc |-> "none", heap |-> stored.heap, population |-> stored.population] :
             lists \in [1..size ->
                 SeqsOf(NewSchedules(trains_, routes_, time_horizon), MinTrips, MaxTrips)]}
         \cup (IF size >= 1 /\ \E t \in trains_ : Capacity[t] < MinLoad
               THEN {[exc |-> "ValueError", heap |-> <<>>, population |-> <<>>]}
               ELSE {})

(***************************************************************************)
(* _evaluate_objectives                                                    *)
(***************************************************************************)
\* _calculate_fuel_consumption
CalculateFuelConsumption(individual, heap_, trains_, routes_) ==
    SumSeq([k \in 1..Len(individual) |->
        LET schedule == heap_[individual[k]]
        IN  IF schedule.train_id \in trains_ /\ schedule.route_id \in routes_
            THEN Distance[schedule.route_id]
                 * (EffScale \div FuelEfficiency[schedule.train_id])
            ELSE 0])

\* _calculate_on_time_performance; on_time_count is the number of simulated delays <= 5
CalculateOnTimePerformance(individual, on_time_count) ==
    IF individual = <<>> THEN 0
    ELSE on_time_count * 100 * (TripScale \div Len(individual))

\* _calculate_operational_costs
CalculateOperationalCosts(individual, heap_, trains_, routes_) ==
    SumSeq([k \in 1..Len(individual) |->
        LET schedule == heap_[individual[k]]
        IN  IF schedule.train_id \in trains_ /\ schedule.route_id \in routes_
            THEN 2 * EffScale * MaintenanceCostPerKm[schedule.train_id]
                     * Distance[schedule.route_id]
                 + 3 * Distance[schedule.route_id]
                     * (EffScale \div FuelEfficiency[schedule.train_id])
            ELSE 0])

\* (schedule["passenger_load"] / train.capacity) * 100
Utilization(schedule) ==
    schedule.passenger_load * 100 * (CapScale \div Capacity[schedule.train_id])

\* _calculate_capacity_utilization
CalculateCapacityUtilization(individual, heap_, trains_) ==
    IF individual = <<>> THEN 0
    ELSE SumSeq([k \in 1..Len(individual) |->
             LET schedule == heap_[individual[k]]
             IN  IF schedule.train_id \in trains_ THEN Utilization(schedule) ELSE 0])
         * (TripScale \div Len(individual))

EvaluateObjectives(individual, heap_, trains_, routes_, on_time_count) ==
    << CalculateFuelConsumption(individual, heap_, trains_, routes_),
       0 - CalculateOnTimePerformance(individual, on_time_count),
       CalculateOperationalCosts(individual, heap_, trains_, routes_),
       0 - CalculateCapacityUtilization(individual, heap_, trains_) >>

\* the evaluations of a whole population: one on-time count per individual
EvaluatePopulation(population_, heap_, trains_, routes_) ==
    LET n == Len(population_)
        longest == IF n = 0 THEN 0
                   ELSE CHOOSE l \in {Len(population_[k]) : k \in 1..n} :
                            \A k \in 1..n : Len(population_[k]) <= l
    IN  {[k \in 1..n |->
            EvaluateObjectives(population_[k], heap_, trains_, routes_, counts[k])] :
            counts \in {c \in [1..n -> 0..longest] :
                           \A k \in 1..n : c[k] <= Len(population_[k])}}

(***************************************************************************)
(* Selection: the loop over the fronts in nsga2_optimization               *)
(***************************************************************************)
SortedByDistanceAscending(distances) ==
    StableSorted(Len(distances),
                 [x, y \in 0..(Len(distances) - 1) |->
                     DistanceLess(distances[x + 1], distances[y + 1])])

\* sorted(range(len(front)), key=lambda x: distances[x], reverse=True)
SortedByDistance(distances) ==
    StableSorted(Len(distances),
                 [x, y \in 0..(Len(distances) - 1) |->
                     DistanceLess(distances[y + 1], distances[x + 1])])

\* the else branch: the needed members of the front, most isolated first
CrowdingSelection(front, needed, population_, objective_values_) ==
    LET front_objectives == [k \in 1..Len(front) |-> objective_values_[front[k] + 1]]
        distances == CalculateCrowdingDistance(front_objectives)
        sorted_indices == SortedByDistance(distances)
    IN  [k \in 1..Min(needed, Len(front)) |-> population_[front[sorted_indices[k] + 1] + 1]]

\* for front in fronts: ... (k is the position of the front in fronts)
RECURSIVE SelectLoop(_, _, _, _, _, _)
SelectLoop(fronts_, k, new_population_, population_, objective_values_, size) ==
    IF k > Len(fronts_) THEN new_population_
    ELSE IF Len(new_population_) + Len(fronts_[k]) <= size
    THEN SelectLoop(fronts_, k + 1,
             new_population_ \o [i \in 1..Len(fronts_[k]) |-> population_[fronts_[k][i] + 1]],
             population_, objective_values_, size)
    ELSE new_population_
         \o CrowdingSelection(fronts_[k], size - Len(new_population_),
                              population_, objective_values_)

(***************************************************************************)
(* _crossover, _mutate, _generate_offspring                                *)
(* An individual dict is modelled by its "schedules" list; its other two   *)
(* keys stay empty.  dict.copy() is shallow: the copy holds the same list. *)
(***************************************************************************)
Samples(n) == [1..n -> 1..n]

\* the orders random.shuffle can leave a list of n elements in
Shuffles(n) == {p \in [1..n -> 1..n] : \A a, b \in 1..n : p[a] = p[b] => a = b}

\* random.shuffle(all_schedules): the list named all_schedules is reordered
\* in place, the other lists are not touched
ShuffleInPlace(lists, p) ==
    [lists EXCEPT !.all_schedules = [k \in 1..Len(@) |-> @[p[k]]]]

\* a _crossover that would split the shuffled pool at half the length of
\* parent1
CrossoverSplitFirst(parent1, parent2) ==
    LET lists == [parent1 |-> parent1,
                  parent2 |-> parent2,
                  all_schedules |-> parent1 \o parent2]
        split_point == Len(parent1) \div 2
    IN  {LET shuffled == ShuffleInPlace(lists, p)
         IN  [child1 |-> SubSeq(shuffled.all_schedules, 1, split_point),
              child2 |-> SubSeq(shuffled.all_schedules, split_point + 1,
                                Len(shuffled.all_schedules)),
              parent1 |-> shuffled.parent1,
              parent2 |-> shuffled.parent2] :
            p \in Shuffles(Len(lists.all_schedules))}

\* _crossover: the lists it leaves, the children's and the parents' own
CrossoverLists(parent1, parent2) ==
    LET lists == [parent1 |-> parent1,
                  parent2 |-> parent2,
                  all_schedules |-> parent1 \o parent2]
        split_point == Len(lists.all_schedules) \div 2
    IN  {LET shuffled == ShuffleInPlace(lists, p)
         IN  [child1 |-> SubSeq(shuffled.all_schedules, 1, split_point),
              child2 |-> SubSeq(shuffled.all_schedules, split_point + 1,
                                Len(shuffled.all_schedules)),
              parent1 |-> shuffled.parent1,
              parent2 |-> shuffled.parent2] :
            p \in Shuffles(Len(lists.all_schedules))}

\* the pairs (child1, child2) _crossover can return
Crossover(parent1, parent2) ==
    {<<lists.child1, lists.child2>> : lists \in CrossoverLists(parent1, parent2)}

ShiftDeparture(heap_, entry, shift) ==
    [heap_ EXCEPT ![entry].departure_time = @ + shift]

\* schedule["departure_time"] += time_shift; schedule["arrival_time"] += time_shift
TimeShift(heap_, entry, shift) ==
    [heap_ EXCEPT ![entry].departure_time = @ + shift,
                  ![entry].arrival_time = @ + shift]

\* the tuple assignment that exchanges the two train_id values
TrainSwap(heap_, entry1, entry2) ==
    [[heap_ EXCEPT ![entry1].train_id = heap_[entry2].train_id]
        EXCEPT ![entry2].train_id = heap_[entry1].train_id]

\* a _mutate that would work on copies of the entries: the individual returned
\* holds new entries, and the time shift is applied to one of those
MutateCopies(individual, heap_, shifts) ==
    LET copies == [k \in 1..Len(individual) |-> Len(heap_) + k]
        copied == heap_ \o [k \in 1..Len(individual) |-> heap_[individual[k]]]
    IN  {[mutation_type |-> "time_shift", individual |-> copies,
          heap |-> TimeShift(copied, copies[idx], shift)] :
            idx \in 1..Len(individual), shift \in shifts}

\* _mutate with its time shift drawn from shifts: the variant drawn, the list
\* of the individual returned (the copy holds the same schedules list) and
\* the heap left
MutateDraws(individual, heap_, shifts) ==
    IF individual = <<>>
    THEN {[mutation_type |-> "none", individual |-> individual, heap |-> heap_]}
    ELSE LET time_shift ==
                 {TimeShift(heap_, individual[idx], shift) :
                     idx \in 1..Len(individual), shift \in shifts}
             train_swap ==
                 IF Len(individual) >= 2
                 THEN {TrainSwap(heap_, individual[pr[1]], individual[pr[2]]) :
                          pr \in {pr \in (1..Len(individual)) \X (1..Len(individual)) :
                                     pr[1] # pr[2]}}
                 ELSE {heap_}
             route_change == {heap_}
             returned(mutation_type, heaps) ==
                 {[mutation_type |-> mutation_type, individual |-> individual, heap |-> h] :
                     h \in heaps}
         IN  returned("time_shift", time_shift)
               \cup returned("train_swap", train_swap)
               \cup returned("route_change", route_change)

\* _mutate: time_shift = timedelta(minutes=random.randint(-30, 30))
MutateCalls(individual, heap_) ==
    MutateDraws(individual, heap_, (0 - MaxShift)..MaxShift)

\* the heaps _mutate can leave
Mutate(individual, heap_) ==
    {call.heap : call \in MutateCalls(individual, heap_)}

\* the time shifts drawn by the mutations of _generate_offspring: the two
\* ends of random.randint(-30, 30)
OffspringShifts == {0 - MaxShift, MaxShift}

\* parent1 = random.choice(population); parent2 = random.choice(population)
Parents(population_) ==
    {<<population_[a], population_[b]>> :
        a \in 1..Len(population_), b \in 1..Len(population_)}

\* the children of _crossover, or parent1.copy(), parent2.copy(): a copy holds
\* the schedules list of its parent
Children(parent1, parent2) ==
    Crossover(parent1, parent2) \cup {<<parent1, parent2>>}

\* if random.random() < self.mutation_rate: child = self._mutate(child)
MaybeMutate(child, heap_) ==
    {[individual |-> call.individual, heap |-> call.heap] :
        call \in MutateDraws(child, heap_, OffspringShifts)}
      \cup {[individual |-> child, heap |-> heap_]}

\* one iteration of the loop: the children appended and the heap it leaves
OffspringPair(population_, heap_) ==
    UNION {UNION {UNION {{[children |-> <<m1.individual, m2.individual>>,
                           heap |-> m2.heap] :
                             m2 \in MaybeMutate(ch[2], m1.heap)} :
                         m1 \in MaybeMutate(ch[1], heap_)} :
                  ch \in Children(pr[1], pr[2])} :
           pr \in Parents(population_)}

\* for _ in range(len(population) // 2): ...
RECURSIVE OffspringLoop(_, _, _, _)
OffspringLoop(count, population_, heap_, offspring) ==
    IF count = 0 THEN {[offspring |-> offspring, heap |-> heap_]}
    ELSE UNION {OffspringLoop(count - 1, population_, pair.heap,
                              offspring \o pair.children) :
                   pair \in OffspringPair(population_, heap_)}

GenerateOffspring(population_, heap_) ==
    OffspringLoop(Len(population_) \div 2, population_, heap_, <<>>)

(***************************************************************************)
(* _format_optimization_results                                            *)
(***************************************************************************)
\* weights = [0.25, 0.25, 0.25, 0.25], in quarters
Weights == <<1, 1, 1, 1>>

\* sum(w * obj for w, obj in zip(weights, objectives[i]))
WeightedSum(objective) ==
    SumSeq([k \in 1..Min(Len(Weights), Len(objective)) |-> Weights[k] * objective[k]])

\* min(range(len(objectives)), key=...): the first index of the least key
RECURSIVE MinIndex(_, _, _)
MinIndex(objectives, i, best) ==
    IF i >= Len(objectives) THEN best
    ELSE MinIndex(objectives, i + 1,
                  IF WeightedSum(objectives[i + 1]) < WeightedSum(objectives[best + 1])
                  THEN i ELSE best)

\* The dict returned, without its two constant or simulated parts
\* (performance_improvements, recommendations).  min() of an empty range raises.
FormatOptimizationResults(solutions, objectives, heap_, trains_, routes_) ==
    IF objectives = <<>> THEN [exc |-> "ValueError", value |-> "none"]
    ELSE LET best_idx == MinIndex(objectives, 1, 0)
             best_solution == solutions[best_idx + 1]
             best_objectives == objectives[best_idx + 1]
         IN  [exc |-> "none",
              value |->
                [objective_values |->
                    [fuel_consumption |-> best_objectives[1],
                     on_time_performance |-> 0 - best_objectives[2],
                     operational_costs |-> best_objectives[3],
                     capacity_utilization |-> 0 - best_objectives[4]],
                 optimal_schedules |->
                    [k \in 1..Len(best_solution) |->
                        LET schedule == heap_[best_solution[k]]
                        IN  [train_id |-> IF schedule.train_id \in trains_
                                          THEN schedule.train_id ELSE 0,
                             route_name |-> IF schedule.route_id \in routes_
                                            THEN schedule.route_id ELSE 0,
                             departure_time |-> schedule.departure_time,
                             arrival_time |-> schedule.arrival_time,
                             passenger_load |-> schedule.passenger_load,
                             capacity_utilization |->
                                 IF schedule.train_id \in trains_
                                 THEN Utilization(schedule) ELSE 0]]]]

(***************************************************************************)
(* nsga2_optimization, phase by phase                                      *)
(***************************************************************************)
ErrorResult == [error |-> "No available trains or routes for optimization"]

NoTrains(trains_, routes_) == trains_ = {}

\* if not trains or not routes
NoData(trains_, routes_) == trains_ = {} \/ routes_ = {}

\* the function is left (return or raise): its locals are gone
Exit(outcome) ==
    /\ pc' = "done"
    /\ result' = outcome
    /\ heap' = <<>> /\ population' = <<>> /\ generation' = 0
    /\ objective_values' = <<>> /\ fronts' = <<>> /\ new_population' = <<>>

\* for generation in range(self.generations): the next position of the loop
LoopOrFinal(next_generation) ==
    IF next_generation < generations THEN "evaluate" ELSE "final_evaluate"

Init ==
    /\ pc = "start"
    /\ arg = "none" /\ ret = "none"
    /\ trains \in SUBSET TrainIds
    /\ routes \in SUBSET RouteIds
    /\ population_size \in 0..MaxPop
    /\ generations \in 0..MaxGen
    /\ heap = <<>> /\ population = <<>> /\ generation = 0
    /\ objective_values = <<>> /\ fronts = <<>> /\ new_population = <<>>
    /\ result = [exc |-> "none", value |-> "none"]
    /\ log = <<>>
    /\ OuterIdle

\* lines 52-64: read the data, return the error or initialise the population
Initialize ==
    /\ pc = "start"
    /\ IF NoData(trains, routes)
       THEN /\ Exit([exc |-> "none", value |-> ErrorResult])
            /\ UNCHANGED log
       ELSE /\ log' = Append(log, "INIT")
            /\ \E init \in InitializePopulation(trains, routes,
                                                Parameters.time_horizon, population_size) :
                  IF init.exc # "none"
                  THEN Exit([exc |-> init.exc, value |-> "none"])
                  ELSE /\ heap' = init.heap
                       /\ population' = init.population
                       /\ generation' = 0
                       /\ pc' = LoopOrFinal(0)
                       /\ UNCHANGED <<objective_values, fronts, new_population, result>>
    /\ UNCHANGED <<harnessVars, outerVars, trains, routes, population_size, generations>>

\* lines 69-72
Evaluate ==
    /\ pc = "evaluate"
    /\ log' = Append(log, "EVALUATE")
    /\ \E values \in EvaluatePopulation(population, heap, trains, routes) :
          objective_values' = values
    /\ pc' = "sort"
    /\ UNCHANGED <<harnessVars, outerVars, trains, routes, population_size, generations, heap,
                   population, generation, fronts, new_population, result>>

\* line 75
Sort ==
    /\ pc = "sort"
    /\ log' = Append(log, "SORT")
    /\ LET sorted == NonDominatedSort(objective_values)
       IN  IF sorted.exc # "none"
           THEN Exit([exc |-> sorted.exc, value |-> "none"])
           ELSE /\ fronts' = sorted.value
                /\ pc' = "select"
                /\ UNCHANGED <<heap, population, generation, objective_values,
                               new_population, result>>
    /\ UNCHANGED <<harnessVars, outerVars, trains, routes, population_size, generations>>

\* lines 78-92
Select ==
    /\ pc = "select"
    /\ log' = Append(log, "SELECT")
    /\ new_population' = SelectLoop(fronts, 1, <<>>, population, objective_values,
                                    population_size)
    /\ pc' = "reproduce"
    /\ UNCHANGED <<harnessVars, outerVars, trains, routes, population_size, generations, heap,
                   population, generation, objective_values, fronts, result>>

\* lines 95-96, and the step of the loop
Reproduce ==
    /\ pc = "reproduce"
    /\ log' = Append(log, "REPRODUCE")
    /\ \E made \in GenerateOffspring(new_population, heap) :
          /\ heap' = made.heap
          /\ population' = new_population \o made.offspring
    /\ generation' = generation + 1
    /\ pc' = LoopOrFinal(generation + 1)
    /\ UNCHANGED <<harnessVars, outerVars, trains, routes, population_size, generations,
                   objective_values, fronts, new_population, result>>

\* lines 99-102
FinalEvaluate ==
    /\ pc = "final_evaluate"
    /\ log' = Append(log, "EVALUATE")
    /\ \E values \in EvaluatePopulation(population, heap, trains, routes) :
          objective_values' = values
    /\ pc' = "final_sort"
    /\ UNCHANGED <<harnessVars, outerVars, trains, routes, population_size, generations, heap,
                   population, generation, fronts, new_population, result>>

\* line 103
FinalSort ==
    /\ pc = "final_sort"
    /\ log' = Append(log, "SORT")
    /\ LET sorted == NonDominatedSort(objective_values)
       IN  IF sorted.exc # "none"
           THEN Exit([exc |-> sorted.exc, value |-> "none"])
           ELSE /\ fronts' = sorted.value
                /\ pc' = "format"
                /\ UNCHANGED <<heap, population, generation, objective_values,
                               new_population, result>>
    /\ UNCHANGED <<harnessVars, outerVars, trains, routes, population_size, generations>>

\* lines 106-111
Format ==
    /\ pc = "format"
    /\ LET pareto_solutions == [k \in 1..Len(fronts[1]) |-> population[fronts[1][k] + 1]]
           pareto_objectives == [k \in 1..Len(fronts[1]) |-> objective_values[fronts[1][k] + 1]]
       IN  Exit(FormatOptimizationResults(pareto_solutions, pareto_objectives, heap,
                                          trains, routes))
    /\ UNCHANGED <<harnessVars, outerVars, trains, routes, population_size, generations, log>>

Next ==
    \/ Initialize
    \/ Evaluate
    \/ Sort
    \/ Select
    \/ Reproduce
    \/ FinalEvaluate
    \/ FinalSort
    \/ Format

Spec == Init /\ [][Next]_vars

(***************************************************************************)
(* The task service: OptimizationTaskViewSet (views.py), the Celery task   *)
(* run_optimization_task (tasks.py) and the broker between them.  A row of *)
(* OptimizationTask is a record; a DateTimeField holds "None" or "set".    *)
(* task_id is the position of the row in db (uuid4 gives a fresh id).      *)
(***************************************************************************)
\* at most MaxTasks tasks are created and MaxDispatches calls of delay made
MaxTasks == 1
MaxDispatches == 2

\* self.retry(exc=exc, countdown=60, max_retries=3)
RetryCountdown == 60
MaxRetries == 3

\* the keys of OptimizationTask.OPTIMIZATION_TYPE
OPTIMIZATION_TYPE == {"schedule", "route", "fuel", "multi_objective"}

\* the optimization_type values a create request is sent with
RequestedTypes == OPTIMIZATION_TYPE \cup {"dqn"}

\* the ChoiceField the ModelSerializer builds from choices=OPTIMIZATION_TYPE
IsValid(optimization_type) == optimization_type \in OPTIMIZATION_TYPE

\* serializer.save(user=..., task_id=task_id, status="pending")
NewTask(optimization_type) ==
    [optimization_type |-> optimization_type,
     parameters |-> Parameters,
     status |-> "pending",
     start_time |-> "None",
     end_time |-> "None",
     error_message |-> "",
     results |-> "{}"]

\* run_optimization_task.delay(...): a message in the broker, due at once
Message(id, task_id, task, retries, countdown) ==
    [id |-> id,
     task_id |-> task_id,
     optimization_type |-> task.optimization_type,
     parameters |-> task.parameters,
     retries |-> retries,
     countdown |-> countdown]

Delay(task_id, task) ==
    /\ dispatched' = Append(dispatched,
                            [task_id |-> task_id,
                             optimization_type |-> task.optimization_type,
                             parameters |-> task.parameters,
                             executions |-> 0,
                             outcomes |-> <<>>])
    /\ broker' = broker \cup {Message(Len(dispatched) + 1, task_id, task, 0, 0)}

\* POST /optimization-tasks/: validation, then perform_create
Create(optimization_type) ==
    /\ pc = "serve"
    /\ IF ~IsValid(optimization_type)
       THEN /\ response' = [request |-> "create",
                            optimization_type |-> optimization_type,
                            status |-> 400,
                            task_id |-> "None"]
            /\ UNCHANGED <<db, broker, dispatched>>
       ELSE /\ Len(db) < MaxTasks
            /\ Len(dispatched) < MaxDispatches
            /\ LET task_id == Len(db) + 1
                   task == NewTask(optimization_type)
               IN  /\ db' = Append(db, task)
                   /\ Delay(task_id, task)
                   /\ response' = [request |-> "create",
                                   optimization_type |-> optimization_type,
                                   status |-> 201,
                                   task_id |-> task_id]
    /\ UNCHANGED <<pc, harnessVars, driverVars, dqnVars, workers>>

\* a restart that would not look at the status of the task
RestartAny(task_id) ==
    /\ pc = "serve"
    /\ task_id \in DOMAIN db
    /\ Len(dispatched) < MaxDispatches
    /\ LET task == [db[task_id] EXCEPT
                       !.status = "pending",
                       !.start_time = "None",
                       !.end_time = "None",
                       !.error_message = "",
                       !.results = "{}"]
       IN  /\ db' = [db EXCEPT ![task_id] = task]
           /\ Delay(task_id, task)
    /\ response' = [request |-> "restart", task_id |-> task_id, status |-> 200,
                    data |-> [message |-> "Task restarted successfully"]]
    /\ UNCHANGED <<pc, harnessVars, driverVars, dqnVars, workers>>

\* POST /optimization-tasks/<pk>/restart/
Restart(task_id) ==
    /\ pc = "serve"
    /\ task_id \in DOMAIN db
    /\ IF db[task_id].status # "failed"
       THEN /\ response' = [request |-> "restart", task_id |-> task_id, status |-> 400,
                            data |-> [error |-> "Only failed tasks can be restarted"]]
            /\ UNCHANGED <<db, broker, dispatched>>
       ELSE /\ Len(dispatched) < MaxDispatches
            /\ LET task == [db[task_id] EXCEPT
                               !.status = "pending",
                               !.start_time = "None",
                               !.end_time = "None",
                               !.error_message = "",
                               !.results = "{}"]
               IN  /\ db' = [db EXCEPT ![task_id] = task]
                   /\ Delay(task_id, task)
            /\ response' = [request |-> "restart", task_id |-> task_id, status |-> 200,
                            data |-> [message |-> "Task restarted successfully"]]
    /\ UNCHANGED <<pc, harnessVars, driverVars, dqnVars, workers>>

\* sixty seconds pass: the countdown of every waiting message runs down
Elapse ==
    /\ pc = "serve"
    /\ \E m \in broker : m.countdown > 0
    /\ broker' = {[m EXCEPT !.countdown =
                      IF @ > RetryCountdown THEN @ - RetryCountdown ELSE 0] :
                     m \in broker}
    /\ UNCHANGED <<pc, harnessVars, driverVars, dqnVars, db, workers, dispatched, response>>

\* lines 20-23: a worker takes a due message and marks the task running
StartExecution(m) ==
    /\ pc = "serve"
    /\ m \in broker
    /\ m.countdown = 0
    /\ LET task == [db[m.task_id] EXCEPT !.status = "running", !.start_time = "set"]
       IN  /\ db' = [db EXCEPT ![m.task_id] = task]
           /\ workers' = workers \cup
                  {[id |-> m.id,
                    task_id |-> m.task_id,
                    optimization_type |-> m.optimization_type,
                    parameters |-> m.parameters,
                    retries |-> m.retries,
                    task |-> task]}
    /\ broker' = broker \ {m}
    /\ dispatched' = [dispatched EXCEPT ![m.id].executions = @ + 1]
    /\ UNCHANGED <<pc, harnessVars, driverVars, dqnVars, response>>

\* lines 26-35: what the optimizer call can do.  MultiObjectiveOptimizer has
\* no method optimize; nsga2_optimization returns the error dict without
\* data and raises with data (population_size is 50)
RunOptimizer(optimization_type) ==
    IF optimization_type = "dqn"
    THEN {[exc |-> "AttributeError", value |-> "none"]}
    ELSE IF optimization_type = "multi_objective"
    THEN {[exc |-> "none", value |-> ErrorResult],
          [exc |-> "IndexError", value |-> "none"],
          [exc |-> "ValueError", value |-> "none"]}
    ELSE {[exc |-> "AttributeError", value |-> "none"]}

\* str(exc)
Str(exc) ==
    CASE exc = "AttributeError" ->
             "'MultiObjectiveOptimizer' object has no attribute 'optimize'"
      [] exc = "IndexError" -> "list index out of range"
      [] exc = "ValueError" -> "empty range for randrange()"

\* lines 38-44: the optimizer returned; task is the object read at line 20
ExecutionReturns(w) ==
    /\ pc = "serve"
    /\ w \in workers
    /\ \E outcome \in RunOptimizer(w.optimization_type) :
          /\ outcome.exc = "none"
          /\ db' = [db EXCEPT ![w.task_id] =
                       [w.task EXCEPT
                           !.status = "completed",
                           !.end_time = "set",
                           !.results = outcome.value]]
    /\ workers' = workers \ {w}
    /\ dispatched' = [dispatched EXCEPT ![w.id].outcomes = Append(@, "returned")]
    /\ UNCHANGED <<pc, harnessVars, driverVars, dqnVars, broker, response>>

RetryOnceMore(broker_, w) ==
    IF w.retries > MaxRetries THEN broker_
    ELSE broker_ \cup {Message(w.id, w.task_id, w, w.retries + 1, RetryCountdown)}

\* self.retry(exc=exc, countdown=60, max_retries=3): the message is sent
\* again unless the retries are used up
Retry(broker_, w) ==
    IF w.retries + 1 > MaxRetries THEN broker_
    ELSE broker_ \cup {Message(w.id, w.task_id, w, w.retries + 1, RetryCountdown)}

\* lines 46-55: the optimizer raised; the task is read again
ExecutionRaises(w) ==
    /\ pc = "serve"
    /\ w \in workers
    /\ \E outcome \in RunOptimizer(w.optimization_type) :
          /\ outcome.exc # "none"
          /\ db' = [db EXCEPT ![w.task_id] =
                       [@ EXCEPT
                           !.status = "failed",
                           !.end_time = "set",
                           !.error_message = Str(outcome.exc)]]
    /\ broker' = Retry(broker, w)
    /\ workers' = workers \ {w}
    /\ dispatched' = [dispatched EXCEPT ![w.id].outcomes = Append(@, "raised")]
    /\ UNCHANGED <<pc, harnessVars, driverVars, dqnVars, response>>

InitTasks ==
    /\ pc = "serve"
    /\ arg = "none" /\ ret = "none"
    /\ DriverIdle /\ OuterIdle

NextTasks ==
    \/ \E optimization_type \in RequestedTypes : Create(optimization_type)
    \/ \E task_id \in 1..MaxTasks : Restart(task_id)
    \/ Elapse
    \/ \E m \in broker : StartExecution(m)
    \/ \E w \in workers : ExecutionReturns(w)
    \/ \E w \in workers : ExecutionRaises(w)

SpecTasks == InitTasks /\ [][NextTasks]_vars

(***************************************************************************)
(* TransportationEnvironment (dqn_optimization.py).  Floats are integers   *)
(* in a fixed unit: fuel_level and total_fuel_consumed in hundredths,      *)
(* congestion in thirds, avg_delay in thirds of a minute; a product with   *)
(* 0.9 or 0.95 is rounded down to the unit.  current_time is in minutes    *)
(* past the datetime.now() of the last reset.  A random draw from a range  *)
(* is a choice between its two ends.  A current_route of None is 0.        *)
(***************************************************************************)
\* the trains and routes an environment is built over
EnvTrainIds == {1, 2}
EnvRouteIds == {1, 2}

\* step is called while current_time < MaxSteps half hours
MaxSteps == 2

\* self.state_size, self.action_size
StateSize == 12
ActionSize == 4
\* timedelta(hours=24), timedelta(minutes=30), in minutes
EpisodeDuration == 1440
StepMinutes == 30

\* datetime.now() at the reset: its hour and weekday
Now == [hour |-> 23, weekday |-> 6]

\* random.randint(50, 200), random.uniform(0.05, 0.15), random.uniform(5, 15),
\* random.uniform(10, 30)
PassengerDraws == {50, 200}
FuelSavedDraws == {5, 15}
DelayDraws == {5, 15}
FuelUsedDraws == {10, 30}

Max(a, b) == IF a >= b THEN a ELSE b

RECURSIVE SumOver(_, _)
SumOver(f, S) ==
    IF S = {} THEN 0
    ELSE LET x == CHOOSE x \in S : TRUE IN f[x] + SumOver(f, S \ {x})

NewTrainState ==
    [busy |-> FALSE, fuel_level |-> 100, location |-> "depot", current_route |-> 0]
NewRouteState ==
    [congestion |-> 0, active_trains |-> 0, avg_delay |-> 0]

KeepTotals(env) ==
    [env EXCEPT
        !.current_time = 0,
        !.train_states = [t \in env.trains |-> NewTrainState],
        !.route_states = [r \in env.routes |-> NewRouteState]]

\* reset(), lines 64-89
EnvReset(env) ==
    [env EXCEPT
        !.current_time = 0,
        !.total_fuel_consumed = 0,
        !.total_delays = 0,
        !.total_passengers = 0,
        !.operational_cost = 0,
        !.train_states = [t \in env.trains |-> NewTrainState],
        !.route_states = [r \in env.routes |-> NewRouteState]]

\* __init__, which ends with self.reset()
NewEnvironment(trains_, routes_) ==
    EnvReset([trains |-> trains_,
              routes |-> routes_,
              current_time |-> 0,
              episode_duration |-> EpisodeDuration,
              state_size |-> StateSize,
              action_size |-> ActionSize,
              total_fuel_consumed |-> 0,
              total_delays |-> 0,
              total_passengers |-> 0,
              operational_cost |-> 0,
              train_states |-> <<>>,
              route_states |-> <<>>])

BusyTrains(env) == {t \in env.trains : env.train_states[t].busy}

\* np.zeros(self.state_size)
Zeros(n) == [k \in 1..n |-> <<0, 1>>]

\* _get_state(): each component as <<numerator, denominator>>
GetState(env) ==
    IF env.trains = {} \/ env.routes = {} THEN Zeros(env.state_size)
    ELSE LET hour == (Now.hour + env.current_time \div 60) % 24
             weekday == (Now.weekday + (Now.hour * 60 + env.current_time) \div 1440) % 7
             congested_routes ==
                 {r \in env.routes : env.route_states[r].congestion * 10 > 21}
         IN  << <<Cardinality(BusyTrains(env)), Cardinality(env.trains)>>,
                <<SumOver([t \in env.trains |-> env.train_states[t].fuel_level], env.trains),
                  100 * Cardinality(env.trains)>>,
                <<Cardinality(congested_routes), Cardinality(env.routes)>>,
                <<SumOver([r \in env.routes |-> env.route_states[r].avg_delay], env.routes),
                  3 * Cardinality(env.routes)>>,
                <<hour, 24>>,
                <<weekday, 7>>,
                <<100000 - Min(env.total_fuel_consumed, 100000), 100000>>,
                <<Max(0, 100 - env.total_delays), 100>>,
                <<Min(env.total_passengers, 10000), 10000>>,
                <<Cardinality(env.trains), 50>>,
                <<Cardinality(env.routes), 20>>,
                <<hour % 24, 24>> >>

\* the four actions: the environments each can leave, with the reward (in
\* hundredths) or the exception
Effect(env, reward) == [env |-> env, reward |-> reward, exc |-> "none"]

\* _schedule_train()
ScheduleTrain(env) ==
    LET available_trains == env.trains \ BusyTrains(env)
    IN  IF available_trains = {} THEN {Effect(env, -10)}
        ELSE IF env.routes = {}
        THEN {[env |-> env, reward |-> 0, exc |-> "IndexError"]}
        ELSE {Effect([env EXCEPT
                         !.train_states[train_id].busy = TRUE,
                         !.train_states[train_id].current_route = route_id,
                         !.route_states[route_id].active_trains = @ + 1,
                         !.total_passengers = @ + passengers], 50) :
                 train_id \in available_trains, route_id \in env.routes,
                 passengers \in PassengerDraws}

\* _delay_departure()
DelayDeparture(env) ==
    IF BusyTrains(env) = {} THEN {Effect(env, -5)}
    ELSE {Effect([env EXCEPT !.total_delays = @ + 1], -10)}

\* a _change_route that would not take the train off its old route
ChangeRouteKeepOld(env) ==
    LET busy_trains ==
            {t \in BusyTrains(env) : env.train_states[t].current_route # 0}
    IN  IF busy_trains = {} THEN {Effect(env, -5)}
        ELSE {Effect([env EXCEPT
                         !.route_states[new_route].active_trains = @ + 1,
                         !.train_states[train_id].current_route = new_route], -10) :
                 train_id \in busy_trains, new_route \in env.routes}

\* _change_route()
ChangeRoute(env) ==
    LET busy_trains ==
            {t \in BusyTrains(env) : env.train_states[t].current_route # 0}
    IN  IF busy_trains = {} THEN {Effect(env, -5)}
        ELSE {LET old_route == env.train_states[train_id].current_route
                  moved == [[env EXCEPT !.route_states[old_route].active_trains = @ - 1]
                               EXCEPT
                                  !.route_states[new_route].active_trains = @ + 1,
                                  !.train_states[train_id].current_route = new_route]
              IN  Effect(moved,
                         IF moved.route_states[old_route].congestion
                              > moved.route_states[new_route].congestion
                         THEN 20 ELSE -10) :
                 train_id \in busy_trains, new_route \in env.routes}

\* _optimize_speed()
OptimizeSpeed(env) ==
    IF BusyTrains(env) = {} THEN {Effect(env, -5)}
    ELSE {Effect([env EXCEPT
                     !.train_states =
                         [t \in env.trains |->
                             IF t \in BusyTrains(env)
                             THEN [env.train_states[t] EXCEPT
                                      !.fuel_level = Min(100, @ + fuel_saved)]
                             ELSE env.train_states[t]],
                     !.total_fuel_consumed = (@ * 95) \div 100], 30) :
             fuel_saved \in FuelSavedDraws}

\* _update_environment()
UpdateEnvironment(env) ==
    {LET congested ==
             [env EXCEPT
                 !.route_states =
                     [r \in env.routes |->
                         LET congestion == Min(3, env.route_states[r].active_trains)
                         IN  [env.route_states[r] EXCEPT
                                 !.congestion = congestion,
                                 !.avg_delay = congestion * delay[r]]]]
         left(r) == {t \in completed : congested.train_states[t].current_route = r}
         arrived ==
             [congested EXCEPT
                 !.train_states =
                     [t \in env.trains |->
                         IF t \in completed
                         THEN [congested.train_states[t] EXCEPT
                                  !.busy = FALSE,
                                  !.current_route = 0,
                                  !.fuel_level = (@ * 9) \div 10]
                         ELSE congested.train_states[t]],
                 !.route_states =
                     [r \in env.routes |->
                         [congested.route_states[r] EXCEPT
                             !.active_trains = @ - Cardinality(left(r))]]]
     IN  [arrived EXCEPT
             !.total_fuel_consumed =
                 @ + Cardinality(BusyTrains(arrived)) * fuel_used * 100] :
        delay \in [env.routes -> DelayDraws],
        completed \in SUBSET BusyTrains(env),
        fuel_used \in FuelUsedDraws}

\* _calculate_reward(): <<numerator, denominator>>, nan without routes
CalculateReward(env) ==
    IF env.routes = {} /\ env.trains # {}
    THEN [exc |-> "none", value |-> "nan"]
    ELSE IF env.trains = {}
    THEN [exc |-> "ZeroDivisionError", value |-> "none"]
    ELSE LET routes_ == Cardinality(env.routes)
             trains_ == Cardinality(env.trains)
             unit == 600000 * routes_ * trains_
             fuel_reward == 0 - env.total_fuel_consumed * 6 * routes_ * trains_
             delay_penalty == 0 - env.total_delays * 60000 * routes_ * trains_
             passenger_reward == env.total_passengers * 60 * routes_ * trains_
             congestion_penalty ==
                 0 - SumOver([r \in env.routes |-> env.route_states[r].congestion],
                             env.routes) * 100000 * trains_
             utilization_reward == Cardinality(BusyTrains(env)) * 180000 * routes_
         IN  [exc |-> "none",
              value |-> <<fuel_reward + delay_penalty + passenger_reward
                            + congestion_penalty + utilization_reward, unit>>]

ActionEffects(env, action) ==
    CASE action = 0 -> ScheduleTrain(env)
      [] action = 1 -> DelayDeparture(env)
      [] action = 2 -> ChangeRoute(env)
      [] action = 3 -> OptimizeSpeed(env)
      [] OTHER -> {Effect(env, 0)}

\* step(action): what it leaves and what it returns or raises
EnvStep(env, action) ==
    UNION {IF effect.exc # "none"
           THEN {[env |-> effect.env, exc |-> effect.exc, value |-> "none"]}
           ELSE {LET reward == CalculateReward(updated)
                 IN  [env |-> updated,
                      exc |-> reward.exc,
                      value |->
                          IF reward.exc # "none" THEN "none"
                          ELSE [state |-> GetState(updated),
                                reward |-> <<effect.reward, reward.value>>,
                                done |-> updated.current_time >= EpisodeDuration + late,
                                info |-> [action_taken |-> action]]] :
                    updated \in UpdateEnvironment(
                                    [effect.env EXCEPT !.current_time = @ + StepMinutes]),
                    late \in {0, 1}} :
              effect \in ActionEffects(env, action)}

\* ---- the environment under test: built over any trains and routes, then
\* stepped and reset in any order
InitEnv ==
    /\ pc = "env"
    /\ arg = "none" /\ ret = "none"
    /\ DriverIdle /\ TasksIdle
    /\ environment \in {NewEnvironment(trains_, routes_) :
                            trains_ \in SUBSET EnvTrainIds, routes_ \in SUBSET EnvRouteIds}
    /\ agent = "None" /\ dqn = "None"

CallStep(action) ==
    /\ pc \in {"env", "step", "reset"}
    /\ environment.current_time < MaxSteps * StepMinutes
    /\ \E stepped \in EnvStep(environment, action) :
          /\ environment' = stepped.env
          /\ ret' = [exc |-> stepped.exc, value |-> stepped.value]
    /\ pc' = "step"
    /\ arg' = [before |-> environment, action |-> action]
    /\ UNCHANGED <<driverVars, taskVars, agent, dqn>>

CallReset ==
    /\ pc \in {"env", "step", "reset"}
    /\ environment' = EnvReset(environment)
    /\ ret' = [exc |-> "none", value |-> GetState(environment')]
    /\ pc' = "reset"
    /\ arg' = [before |-> environment]
    /\ UNCHANGED <<driverVars, taskVars, agent, dqn>>

NextEnv ==
    \/ \E action \in 0..(ActionSize - 1) : CallStep(action)
    \/ CallReset

SpecEnv == InitEnv /\ [][NextEnv]_vars

(***************************************************************************)
(* DQNOptimizer.optimize (dqn_optimization.py).  The agent is its replay   *)
(* memory (by length) and its weights; the rewards and epsilon of an       *)
(* episode are not kept.                                                   *)
(***************************************************************************)
\* parameters.get("episodes", 50) is at most MaxEpisodes and
\* parameters.get("max_steps", 100) at most MaxEpisodeSteps
MaxEpisodes == 1
MaxEpisodeSteps == 1

\* self.train_start
TrainStart == 1000

\* if not trains or not routes
NoDqnData(trains_, routes_) == trains_ = {} \/ routes_ = {}

DqnErrorResult == [error |-> "No available trains or routes for DQN optimization"]

\* DQNAgent(state_size, action_size), then load_model(self.model_path)
NewAgent(state_size, action_size, model_file) ==
    [state_size |-> state_size,
     action_size |-> action_size,
     memory |-> 0,
     weights |-> IF model_file THEN "loaded" ELSE "initial"]

\* DQNOptimizer(), then optimize(parameters) is entered
InitDqn ==
    /\ pc = "optimize"
    /\ arg = "none" /\ ret = "none"
    /\ trains \in SUBSET TrainIds
    /\ routes \in SUBSET RouteIds
    /\ population_size = 0 /\ generations = 0
    /\ heap = <<>> /\ population = <<>> /\ generation = 0
    /\ objective_values = <<>> /\ fronts = <<>> /\ new_population = <<>>
    /\ result = [exc |-> "none", value |-> "none"]
    /\ log = <<>>
    /\ TasksIdle
    /\ environment = "None" /\ agent = "None"
    /\ dqn \in {[episodes |-> episodes,
                  max_steps |-> max_steps,
                  episode |-> 0,
                  steps |-> 0,
                  done |-> FALSE,
                  optimization_log |-> <<>>,
                  model_file |-> model_file,
                  saves |-> 0,
                  result |-> [exc |-> "none", value |-> "none"]] :
                    episodes \in 0..MaxEpisodes, max_steps \in 0..MaxEpisodeSteps,
                    model_file \in BOOLEAN}

\* lines 403-424
Optimize ==
    /\ pc = "optimize"
    /\ IF NoDqnData(trains, routes)
       THEN /\ dqn' = [dqn EXCEPT !.result = [exc |-> "none", value |-> DqnErrorResult]]
            /\ pc' = "returned"
            /\ UNCHANGED <<environment, agent>>
       ELSE /\ environment' = NewEnvironment(trains, routes)
            /\ agent' = NewAgent(environment'.state_size, environment'.action_size,
                                 dqn.model_file)
            /\ pc' = "episode"
            /\ UNCHANGED dqn
    /\ UNCHANGED <<harnessVars, driverVars, taskVars>>

\* lines 427-430: the next episode starts with a reset
BeginEpisode ==
    /\ pc = "episode"
    /\ dqn.episode < dqn.episodes
    /\ environment' = EnvReset(environment)
    /\ dqn' = [dqn EXCEPT !.steps = 0, !.done = FALSE]
    /\ pc' = "step"
    /\ UNCHANGED <<harnessVars, driverVars, taskVars, agent>>

\* lines 432-442: one pass of the step loop
RunStep ==
    /\ pc = "step"
    /\ dqn.steps < dqn.max_steps /\ ~dqn.done
    /\ \E action \in 0..(agent.action_size - 1) :
          \E stepped \in EnvStep(environment, action) :
              /\ environment' = stepped.env
              /\ IF stepped.exc # "none"
                 THEN /\ dqn' = [dqn EXCEPT
                                    !.result = [exc |-> stepped.exc, value |-> "none"]]
                      /\ pc' = "returned"
                      /\ UNCHANGED agent
                 ELSE /\ agent' = [agent EXCEPT !.memory = @ + 1]
                      /\ dqn' = [dqn EXCEPT !.steps = @ + 1,
                                            !.done = stepped.value.done]
                      /\ pc' = "step"
    /\ UNCHANGED <<harnessVars, driverVars, taskVars>>

\* lines 444-461: the step loop is left
EndEpisode ==
    /\ pc = "step"
    /\ dqn.steps = dqn.max_steps \/ dqn.done
    /\ agent' = IF agent.memory > TrainStart
                THEN [agent EXCEPT !.weights = "trained"]
                ELSE agent
    /\ dqn' = [dqn EXCEPT
                  !.optimization_log =
                      Append(@, [episode |-> dqn.episode + 1,
                                 steps |-> dqn.steps,
                                 fuel_consumed |-> environment.total_fuel_consumed,
                                 delays |-> environment.total_delays,
                                 passengers |-> environment.total_passengers]),
                  !.episode = @ + 1]
    /\ pc' = "episode"
    /\ UNCHANGED <<harnessVars, driverVars, taskVars, environment>>

\* lines 463-482: the model is saved and the result returned
SaveAndReturn ==
    /\ pc = "episode"
    /\ dqn.episode = dqn.episodes
    /\ dqn' = [dqn EXCEPT
                  !.model_file = TRUE,
                  !.saves = @ + 1,
                  !.result = [exc |-> "none",
                              value |-> [algorithm |-> "Deep Q-Network (DQN)",
                                         episodes_trained |-> dqn.episodes,
                                         optimization_log |-> dqn.optimization_log,
                                         model_saved |-> TRUE]]]
    /\ pc' = "returned"
    /\ UNCHANGED <<harnessVars, driverVars, taskVars, environment, agent>>

NextDqn ==
    \/ Optimize
    \/ BeginEpisode
    \/ RunStep
    \/ EndEpisode
    \/ SaveAndReturn

SpecDqn == InitDqn /\ [][NextDqn]_vars

(***************************************************************************)
(* The selection loop and the genetic operators under test, each applied   *)
(* to arguments drawn from bounded sets.                                   *)
(***************************************************************************)
\* the selection is run on populations of at most MaxSelectLen individuals
MaxSelectLen == 3

\* the objective vectors of the populations selected from
SelectVectors == [ShortDims -> {0, 1}]

\* the list p cut into fronts after the positions in cuts
FrontsOf(p, cuts) ==
    LET starts == {1} \cup {c + 1 : c \in cuts}
        start(j) == CHOOSE s \in starts : Cardinality({x \in starts : x < s}) = j - 1
        end(j) == IF j = Cardinality(starts) THEN Len(p) ELSE start(j + 1) - 1
    IN  [j \in 1..Cardinality(starts) |->
            [i \in 1..(end(j) - start(j) + 1) |-> p[start(j) + i - 1] - 1]]

\* the lists of fronts over the indices 0..n-1: every index once, no front
\* empty; the single empty front for n = 0
FrontLists(n) ==
    IF n = 0 THEN {<< <<>> >>}
    ELSE {FrontsOf(p, cuts) : p \in Shuffles(n), cuts \in SUBSET (1..(n - 1))}

\* ---- lines 78-92 of nsga2_optimization; individual i is the list <<i>>
InitSelect ==
    /\ pc = "call"
    /\ arg \in UNION {[fronts : FrontLists(n),
                        population : {[k \in 1..n |-> <<k - 1>>]},
                        objective_values : [1..n -> SelectVectors],
                        population_size : 0..(n + 1)] : n \in 0..MaxSelectLen}
    /\ ret = "none"
    /\ DriverIdle /\ OuterIdle

CallSelect ==
    /\ pc = "call"
    /\ pc' = "return"
    /\ ret' = SelectLoop(arg.fronts, 1, <<>>, arg.population, arg.objective_values,
                         arg.population_size)
    /\ UNCHANGED <<arg, driverVars, outerVars>>

NextSelect == CallSelect

SpecSelect == InitSelect /\ [][NextSelect]_vars

\* the two parents given to _crossover hold at most MaxPool entries together
MaxPool == 4

\* the identities of the schedule entries the parents are made of
EntryIds == {1, 2, 3}

\* ---- _crossover(parent1, parent2); the parents may share entries
InitCrossover ==
    /\ pc = "call"
    /\ arg \in {pr \in SeqsOf(EntryIds, 0, MaxPool) \X SeqsOf(EntryIds, 0, MaxPool) :
                    Len(pr[1]) + Len(pr[2]) <= MaxPool}
    /\ ret = "none"
    /\ DriverIdle /\ OuterIdle

CallCrossover ==
    /\ pc = "call"
    /\ pc' = "return"
    /\ ret' \in CrossoverLists(arg[1], arg[2])
    /\ UNCHANGED <<arg, driverVars, outerVars>>

NextCrossover == CallCrossover

SpecCrossover == InitCrossover /\ [][NextCrossover]_vars

\* _mutate is given a heap and an individual of at most MaxMutateLen entries
MaxMutateLen == 2

\* the schedule entries the heap given to _mutate is made of
MutateEntries ==
    {[train_id |-> 1, route_id |-> 1, departure_time |-> 0, arrival_time |-> 30,
      passenger_load |-> 50],
     [train_id |-> 2, route_id |-> 1, departure_time |-> 60, arrival_time |-> 90,
      passenger_load |-> 51],
     [train_id |-> 2, route_id |-> 2, departure_time |-> 0, arrival_time |-> 45,
      passenger_load |-> 50]}

\* train.capacity of the trains 1 and 2 those entries name: every entry's
\* passenger_load is a random.randint(50, train.capacity)
MutateCapacity == <<50, 51>>

\* ---- _mutate(individual); an individual may hold an entry more than once
InitMutate ==
    /\ pc = "call"
    /\ arg \in UNION {[heap : [1..h -> MutateEntries],
                        individual : SeqsOf(1..h, 0, MaxMutateLen)] :
                          h \in 1..MaxMutateLen}
    /\ ret = "none"
    /\ DriverIdle /\ OuterIdle

CallMutate ==
    /\ pc = "call"
    /\ pc' = "return"
    /\ ret' \in MutateCalls(arg.individual, arg.heap)
    /\ UNCHANGED <<arg, driverVars, outerVars>>

NextMutate == CallMutate

SpecMutate == InitMutate /\ [][NextMutate]_vars

\* the schedule entries of the populations given to _generate_offspring
OffspringEntries ==
    <<[train_id |-> 1, route_id |-> 1, departure_time |-> 0, arrival_time |-> 30,
       passenger_load |-> 50],
      [train_id |-> 2, route_id |-> 1, departure_time |-> 60, arrival_time |-> 90,
       passenger_load |-> 51]>>

\* the sizes of those populations
OffspringSizes == 0..2

\* ---- _initialize_population and _generate_offspring.  The populations given
\* to _generate_offspring hold MinTrips to MaxTrips entries each, as those of
\* _initialize_population do, and may share entries, as the survivors of an
\* earlier generation do.
InitOffspring ==
    /\ \/ /\ pc = "new"
          /\ arg \in [population_size : OffspringSizes]
       \/ /\ pc = "call"
          /\ arg \in UNION {[heap : {OffspringEntries},
                              population : [1..n -> SeqsOf(1..Len(OffspringEntries),
                                                           MinTrips, MaxTrips)]] :
                                n \in OffspringSizes}
    /\ ret = "none"
    /\ DriverIdle /\ OuterIdle

CallInitializePopulation ==
    /\ pc = "new"
    /\ pc' = "initialised"
    /\ ret' \in InitializePopulation(TrainIds, RouteIds, Parameters.time_horizon,
                                     arg.population_size)
    /\ UNCHANGED <<arg, driverVars, outerVars>>

CallOffspring ==
    /\ pc = "call"
    /\ pc' = "return"
    /\ ret' \in GenerateOffspring(arg.population, arg.heap)
    /\ UNCHANGED <<arg, driverVars, outerVars>>

NextOffspring ==
    \/ CallInitializePopulation
    \/ CallOffspring

SpecOffspring == InitOffspring /\ [][NextOffspring]_vars

(***************************************************************************)
(* The properties checked.                                                 *)
(***************************************************************************)
HasData == trains # {} /\ routes # {}

\* ---------------------------------------------------------------- C1
\* C1: with at least one operational train and one active route, a run with
\* population_size >= 1 and generations >= 1 returns, without raising, a
\* result whose objective_values holds the four named fields and whose
\* optimal_schedules is a non-empty list.
C1_ReturnsResult ==
    (pc = "done" /\ HasData /\ population_size >= 1 /\ generations >= 1) =>
        /\ result.exc = "none"
        /\ DOMAIN result.value.objective_values =
               {"fuel_consumption", "on_time_performance", "operational_costs",
                "capacity_utilization"}
        /\ result.value.optimal_schedules # <<>>

\* ---------------------------------------------------------------- C2
\* C2: with no operational train or no active route the run returns exactly
\* the error dict, at once: nothing is raised and no phase (population
\* initialisation, evaluation, generation) has run.
C2_NoDataError ==
    (pc = "done" /\ (trains = {} \/ routes = {})) =>
        /\ result = [exc |-> "none", value |-> ErrorResult]
        /\ log = <<>>

\* C2's case: a run given a train but zero routes has returned
C2_Witness ==
    /\ pc = "done"
    /\ trains # {} /\ routes = {}
    /\ population_size >= 1 /\ generations >= 1

\* ---------------------------------------------------------------- C3
\* the indices listed by a list of fronts, with their places
Places(fronts_) == {<<k, p>> : k \in 1..Len(fronts_), p \in 1..MaxSortLen}
PlacesOf(fronts_, i) ==
    {pl \in Places(fronts_) : pl[2] <= Len(fronts_[pl[1]]) /\ fronts_[pl[1]][pl[2]] = i}

\* C3: for every list of objective vectors _non_dominated_sort produces a
\* partition of the index set: every index 0..n-1 is in exactly one front,
\* exactly once (and nothing else is).
C3_Partition ==
    pc = "return" =>
        /\ ret.exc = "none"
        /\ \A i \in 0..(Len(arg) - 1) : Cardinality(PlacesOf(ret.value, i)) = 1
        /\ \A k \in 1..Len(ret.value) : \A p \in 1..Len(ret.value[k]) :
               ret.value[k][p] \in 0..(Len(arg) - 1)

\* ---------------------------------------------------------------- C4
\* the front (position in fronts) holding index i
FrontOf(fronts_, i) == CHOOSE k \in 1..Len(fronts_) : \E p \in 1..Len(fronts_[k]) : fronts_[k][p] = i

\* C4: the fronts returned are ranked consistently with domination: front 0
\* is pairwise non-dominating, every member of a later front is dominated by
\* a member of an earlier front, and nobody is dominated by a member of its
\* own or of a later front.
C4_RankedFronts ==
    pc = "return" =>
        /\ ret.exc = "none"
        /\ \A i, j \in 0..(Len(arg) - 1) :
              Dominates(arg[i + 1], arg[j + 1]) =>
                  FrontOf(ret.value, i) < FrontOf(ret.value, j)
        /\ \A j \in 0..(Len(arg) - 1) :
              FrontOf(ret.value, j) > 1 =>
                  \E i \in 0..(Len(arg) - 1) :
                      /\ FrontOf(ret.value, i) < FrontOf(ret.value, j)
                      /\ Dominates(arg[i + 1], arg[j + 1])

\* ---------------------------------------------------------------- C5
\* C5: _dominates(A, B) is true exactly when A <= B in every objective and
\* A < B in at least one, for equal-length vectors.
C5_DominatesIff ==
    pc = "return" =>
        (ret.ab <=> /\ \A k \in 1..Len(arg[1]) : arg[1][k] <= arg[2][k]
                    /\ \E k \in 1..Len(arg[1]) : arg[1][k] < arg[2][k])

\* C5's case: a four-objective A that dominates B while equal to it somewhere
C5_Witness ==
    /\ pc = "return"
    /\ Len(arg[1]) = NumObjectives
    /\ ret.ab
    /\ \E k \in 1..NumObjectives : arg[1][k] = arg[2][k]

\* ---------------------------------------------------------------- C6
\* C6: _dominates is irreflexive and asymmetric: A never dominates A, and
\* when A dominates B, B does not dominate A.
C6_IrreflexiveAsymmetric ==
    pc = "return" =>
        /\ ~ret.aa
        /\ ~(ret.ab /\ ret.ba)

\* C6's case: a non-empty A compared with itself, and a pair where A dominates B
C6_Witness ==
    /\ pc = "return"
    /\ Len(arg[1]) = NumObjectives
    /\ (arg[1] = arg[2] \/ ret.ab)

\* ---------------------------------------------------------------- C7
\* the first and the last individual in the order sorted (stably) by objective m
FirstBy(objectives, m) ==
    CHOOSE k \in 1..Len(objectives) :
        \A j \in 1..Len(objectives) :
            \/ objectives[k][m] < objectives[j][m]
            \/ (objectives[k][m] = objectives[j][m] /\ k <= j)
LastBy(objectives, m) ==
    CHOOSE k \in 1..Len(objectives) :
        \A j \in 1..Len(objectives) :
            \/ objectives[j][m] < objectives[k][m]
            \/ (objectives[k][m] = objectives[j][m] /\ j <= k)

\* C7: the two extreme individuals of every objective end with an infinite
\* crowding distance, whatever the other objectives add; for a front of at
\* most two individuals every distance is infinite.
C7_ExtremesInfinite ==
    pc = "return" =>
        /\ Len(ret) = Len(arg)
        /\ Len(arg) <= 2 => \A k \in 1..Len(arg) : ret[k] = Infinity
        /\ Len(arg) >= 1 =>
              \A m \in ShortDims :
                  /\ ret[FirstBy(arg, m)] = Infinity
                  /\ ret[LastBy(arg, m)] = Infinity

\* C7's case: in a front of three, an individual extreme in the first
\* objective is interior in the second, whose range is positive, so that a
\* gap is added to its infinite distance
C7_Witness ==
    /\ pc = "return"
    /\ Len(arg) = 3
    /\ \E k \in 1..3 :
          /\ k = FirstBy(arg, 1)
          /\ k # FirstBy(arg, 2) /\ k # LastBy(arg, 2)
          /\ arg[FirstBy(arg, 2)][2] < arg[LastBy(arg, 2)][2]
          /\ ret[k] = Infinity

\* ---------------------------------------------------------------- C8
RECURSIVE Iterations(_)
Iterations(g) ==
    IF g = 0 THEN <<>>
    ELSE <<"EVALUATE", "SORT", "SELECT", "REPRODUCE">> \o Iterations(g - 1)

\* C8: a run with data goes through INIT once, then exactly G = generations
\* iterations of EVALUATE, SORT, SELECT, REPRODUCE in that order, then one
\* final evaluation and sort, and terminates with a result.
C8_DriverStateMachine ==
    (pc = "done" /\ HasData) =>
        /\ log = <<"INIT">> \o Iterations(generations) \o <<"EVALUATE", "SORT">>
        /\ result.exc = "none"

\* ---------------------------------------------------------------- C9
\* C9: the population has a fixed size: at the start of every generation and
\* at the final evaluation, which a run with data reaches, it holds exactly
\* population_size individuals.
C9_FixedPopulationSize ==
    /\ pc \in {"evaluate", "final_evaluate"} => Len(population) = population_size
    /\ (pc = "done" /\ HasData /\ population_size >= 1) =>
           /\ Len(log) >= 2
           /\ SubSeq(log, Len(log) - 1, Len(log)) = <<"EVALUATE", "SORT">>
           /\ result.exc = "none"

\* ---------------------------------------------------------------- C10
\* C10: the run reports one solution: a member of front 0 of the final
\* evaluation with the least equal-weighted sum of the four objectives (the
\* first such member), its objective vector reported with on_time_performance
\* and capacity_utilization un-negated.
C10_ReportsBestOfFrontZero ==
    (HasData /\ population_size >= 1) =>
        /\ pc = "done" => (result.exc = "none" /\ result.value # "none")
        /\ pc = "format" =>
              LET front == fronts[1]
                  formatted ==
                      FormatOptimizationResults(
                          [k \in 1..Len(front) |-> population[front[k] + 1]],
                          [k \in 1..Len(front) |-> objective_values[front[k] + 1]],
                          heap, trains, routes)
              IN  /\ formatted.exc = "none"
                  /\ \E k \in 1..Len(front) :
                        LET best == objective_values[front[k] + 1]
                        IN  /\ \A j \in 1..Len(front) :
                                  /\ best[1] + best[2] + best[3] + best[4]
                                       <= SumSeq(objective_values[front[j] + 1])
                                  /\ (j < k =>
                                        best[1] + best[2] + best[3] + best[4]
                                          < SumSeq(objective_values[front[j] + 1]))
                            /\ formatted.value.objective_values =
                                  [fuel_consumption |-> best[1],
                                   on_time_performance |-> 0 - best[2],
                                   operational_costs |-> best[3],
                                   capacity_utilization |-> 0 - best[4]]
                            /\ Len(formatted.value.optimal_schedules)
                                  = Len(population[front[k] + 1])

\* ---------------------------------------------------------------- C11
\* C11 as stated: _dominates(A, B) holds only if A is strictly smaller than
\* B on every one of the four objectives.
C11_StrictOnAll ==
    (pc = "return" /\ Len(arg[1]) = NumObjectives /\ ret.ab) =>
        \A k \in 1..NumObjectives : arg[1][k] < arg[2][k]

\* C11 as amended: _dominates(A, B) holds only if A is no larger than B on
\* every one of the four objectives and strictly smaller on at least one.
C11_NoLargerOnAll ==
    (pc = "return" /\ Len(arg[1]) = NumObjectives /\ ret.ab) =>
        /\ ~(\E k \in 1..NumObjectives : arg[1][k] > arg[2][k])
        /\ arg[1] # arg[2]

\* C11's case: A dominates B although it is strictly smaller on one
\* objective only
C11_Witness ==
    /\ pc = "return"
    /\ Len(arg[1]) = NumObjectives
    /\ ret.ab
    /\ Cardinality({k \in 1..NumObjectives : arg[1][k] < arg[2][k]}) = 1

\* ---------------------------------------------------------------- C12
\* the executions of run_optimization_task for a task id that wait in the
\* broker or are in progress
Scheduled(task_id) == {m \in broker : m.task_id = task_id}
InProgress(task_id) == {w \in workers : w.task_id = task_id}

\* C12: for every task id there is at most one execution of
\* run_optimization_task in progress or scheduled at any time, whatever the
\* interleaving of creation, automatic retry and restart.
C12_AtMostOneExecution ==
    \A task_id \in DOMAIN db :
        Cardinality(Scheduled(task_id)) + Cardinality(InProgress(task_id)) <= 1

\* ---------------------------------------------------------------- C13
\* the step in which an execution of dispatch d raises
Raises(d) ==
    /\ Len(dispatched') = Len(dispatched)
    /\ dispatched'[d].outcomes = Append(dispatched[d].outcomes, "raised")

\* C13: every execution whose optimizer raises leaves the task 'failed' with
\* end_time and error_message recorded and schedules one retry due after 60
\* seconds, unless it was the third retry; a dispatch is executed at most 4
\* times; when every execution of a task has raised and none is left, the
\* task is 'failed'.
C13_RetryPolicy ==
    /\ [](\A d \in DOMAIN dispatched :
            /\ dispatched[d].executions <= 4
            /\ \A m \in broker : m.retries <= 3)
    /\ [](\A task_id \in DOMAIN db :
            (/\ Scheduled(task_id) = {} /\ InProgress(task_id) = {}
             /\ \A d \in DOMAIN dispatched :
                   dispatched[d].task_id = task_id =>
                       \A k \in DOMAIN dispatched[d].outcomes :
                           dispatched[d].outcomes[k] = "raised")
                => db[task_id].status = "failed")
    /\ [][\A d \in DOMAIN dispatched :
            Raises(d) =>
                LET task_id == dispatched[d].task_id
                    retries == Len(dispatched[d].outcomes)
                IN  /\ db'[task_id].status = "failed"
                    /\ db'[task_id].end_time = "set"
                    /\ db'[task_id].error_message # ""
                    /\ IF retries < 3
                       THEN /\ Cardinality(broker' \ broker) = 1
                            /\ \A m \in broker' \ broker :
                                  /\ m.id = d /\ m.task_id = task_id
                                  /\ m.retries = retries + 1
                                  /\ m.countdown = 60
                            /\ broker \subseteq broker'
                       ELSE broker' = broker]_vars

\* C13's case: a dispatch has been executed four times, every execution
\* raised, nothing is left to run and the task is 'failed'
C13_Witness ==
    /\ db # <<>>
    /\ broker = {} /\ workers = {}
    /\ \E d \in DOMAIN dispatched :
          /\ dispatched[d].executions = 4
          /\ dispatched[d].outcomes = <<"raised", "raised", "raised", "raised">>
          /\ db[dispatched[d].task_id].status = "failed"

\* ---------------------------------------------------------------- C14
\* C14: 'dqn' is an available optimization type, and a create request of any
\* available type (in particular 'dqn') succeeds: the task is stored with
\* status 'pending' and the background run is dispatched exactly once with
\* the task's task_id, optimization_type and parameters.
C14_CreateSucceeds ==
    [][\A optimization_type \in OPTIMIZATION_TYPE \cup {"dqn"} :
          (/\ response' # response
           /\ response'.request = "create"
           /\ response'.optimization_type = optimization_type)
            => /\ optimization_type \in OPTIMIZATION_TYPE
               /\ response'.status = 201
               /\ Len(db') = Len(db) + 1
               /\ response'.task_id = Len(db')
               /\ db'[Len(db')].status = "pending"
               /\ db'[Len(db')].optimization_type = optimization_type
               /\ Len(dispatched') = Len(dispatched) + 1
               /\ LET call == dispatched'[Len(dispatched')]
                  IN  /\ call.task_id = response'.task_id
                      /\ call.optimization_type = optimization_type
                      /\ call.parameters = db'[Len(db')].parameters
               /\ Cardinality(broker' \ broker) = 1]_vars

\* ---------------------------------------------------------------- C15
\* C15: DQNOptimizer.optimize called with no operational train or no active
\* route returns, without raising, the result whose error field is the 'No
\* available trains or routes ...' message; the environment and the agent
\* stay None, no episode is run and no model is saved.
C15_NoDataNoTraining ==
    (pc = "returned" /\ (trains = {} \/ routes = {})) =>
        /\ dqn.result.exc = "none"
        /\ DOMAIN dqn.result.value = {"error"}
        /\ dqn.result.value.error = "No available trains or routes for DQN optimization"
        /\ environment = "None"
        /\ agent = "None"
        /\ dqn.episode = 0 /\ dqn.steps = 0 /\ dqn.optimization_log = <<>>
        /\ dqn.saves = 0

\* C15's case: optimize asked for an episode has returned with a train but
\* no route
C15_Witness ==
    /\ pc = "returned"
    /\ trains # {} /\ routes = {}
    /\ dqn.episodes >= 1 /\ dqn.max_steps >= 1

\* ---------------------------------------------------------------- C16
\* C16: reset(), called in any state that steps can reach, leaves the
\* initial state: the four totals are zero, every train is not busy with
\* fuel_level 1.0 and no current route, every route has zero congestion,
\* active_trains and avg_delay, and the state vector returned has
\* state_size = 12 components.
C16_ResetRestores ==
    pc = "reset" =>
        /\ environment.total_fuel_consumed = 0
        /\ environment.total_delays = 0
        /\ environment.total_passengers = 0
        /\ environment.operational_cost = 0
        /\ \A t \in environment.trains :
              /\ ~environment.train_states[t].busy
              /\ environment.train_states[t].fuel_level = 100
              /\ environment.train_states[t].current_route = 0
        /\ \A r \in environment.routes :
              /\ environment.route_states[r].congestion = 0
              /\ environment.route_states[r].active_trains = 0
              /\ environment.route_states[r].avg_delay = 0
        /\ ret.exc = "none"
        /\ Len(ret.value) = 12
        /\ environment.state_size = 12

\* C16's case: reset was called after steps that left passengers, fuel
\* consumed, a delay, a busy train and a congested route
C16_Witness ==
    /\ pc = "reset"
    /\ arg.before.total_passengers > 0
    /\ arg.before.total_fuel_consumed > 0
    /\ arg.before.total_delays > 0
    /\ \E t \in arg.before.trains :
          /\ arg.before.train_states[t].busy
          /\ arg.before.route_states[arg.before.train_states[t].current_route].congestion > 0

\* ---------------------------------------------------------------- C17
\* C17: for every non-empty list of objective vectors the front-peeling loop
\* terminates and _non_dominated_sort returns, without raising, the ordered
\* list of fronts, none of them empty; for the empty list it returns a
\* single empty front.
C17_SortReturns ==
    pc = "return" =>
        /\ ret.exc = "none"
        /\ IF arg = <<>>
           THEN ret.value = << <<>> >>
           ELSE /\ ret.value # <<>>
                /\ \A k \in 1..Len(ret.value) : ret.value[k] # <<>>

\* ---------------------------------------------------------------- C18
\* the number of members of the fronts before front k
Before(fronts_, k) == SumSeq([j \in 1..(k - 1) |-> Len(fronts_[j])])
\* the individuals selected, as population indices
Survivors == [k \in 1..Len(ret) |-> ret[k][1]]
\* the crowding distances of the members of front k
DistancesOf(k) ==
    CalculateCrowdingDistance(
        [i \in 1..Len(arg.fronts[k]) |-> arg.objective_values[arg.fronts[k][i] + 1]])
\* member a of a front ranks before member b: larger distance, or the same
\* distance and an earlier position
RanksBefore(distances, a, b) ==
    \/ DistanceLess(distances[b], distances[a])
    \/ (~DistanceLess(distances[a], distances[b]) /\ a < b)

\* C18: the survivors are taken front by front in rank order: a front that
\* fits in the remaining capacity is taken whole; of the first front that
\* does not fit exactly the needed members are taken, those of largest
\* crowding distance (ties by position in the front); nothing is taken from
\* a later front; min(population_size, population) individuals survive.
C18_SelectByFrontThenCrowding ==
    pc = "return" =>
        LET fronts_ == arg.fronts
            size == arg.population_size
            fits(k) == Before(fronts_, k + 1) <= size
            splits(k) == ~fits(k) /\ \A j \in 1..(k - 1) : fits(j)
        IN  /\ Len(ret) = Min(size, Len(arg.population))
            /\ \A k \in 1..Len(fronts_) :
                  /\ (fits(k) /\ \A j \in 1..(k - 1) : fits(j)) =>
                        SubSeq(Survivors, Before(fronts_, k) + 1, Before(fronts_, k + 1))
                          = fronts_[k]
                  /\ splits(k) =>
                        LET needed == size - Before(fronts_, k)
                            taken == SubSeq(Survivors, Before(fronts_, k) + 1, Len(ret))
                            places == {a \in 1..Len(fronts_[k]) :
                                          \E i \in 1..Len(taken) : taken[i] = fronts_[k][a]}
                        IN  /\ Len(taken) = needed
                            /\ Cardinality(places) = needed
                            /\ \A a \in places :
                                  \A b \in (1..Len(fronts_[k])) \ places :
                                      RanksBefore(DistancesOf(k), a, b)
                            /\ \A i \in 1..(Len(taken) - 1) :
                                  \E a, b \in places :
                                      /\ fronts_[k][a] = taken[i]
                                      /\ fronts_[k][b] = taken[i + 1]
                                      /\ RanksBefore(DistancesOf(k), a, b)
                  /\ (\E j \in 1..(k - 1) : splits(j)) =>
                        \A i \in 1..Len(ret) : \A a \in 1..Len(fronts_[k]) :
                            Survivors[i] # fronts_[k][a]

\* C18's case: the first front is taken whole and the second, of two
\* members, is split: one of its members survives
C18_Witness ==
    /\ pc = "return"
    /\ Len(arg.fronts) = 2
    /\ Len(arg.fronts[1]) = 1 /\ Len(arg.fronts[2]) = 2
    /\ arg.population_size = 2
    /\ Len(ret) = 2
    /\ ret[1] = arg.population[arg.fronts[1][1] + 1]

\* ---------------------------------------------------------------- C19
\* how often entry e occurs in the list s
Count(s, e) == Cardinality({k \in 1..Len(s) : s[k] = e})

\* C19: the two children of _crossover together hold exactly the pooled
\* entries of the parents, each as often as the pool does; of a pool of n
\* entries child1 holds floor(n/2) and child2 the other n - floor(n/2); the
\* parents' own lists are as they were.
C19_ChildrenPermutePool ==
    pc = "return" =>
        LET n == Len(arg[1]) + Len(arg[2])
        IN  /\ \A e \in EntryIds :
                  Count(ret.child1, e) + Count(ret.child2, e)
                    = Count(arg[1], e) + Count(arg[2], e)
            /\ Len(ret.child1) = n \div 2
            /\ Len(ret.child2) = n - n \div 2
            /\ ret.parent1 = arg[1]
            /\ ret.parent2 = arg[2]

\* C19's case: a pool of three entries, one of them held by both parents,
\* comes back in another order, one entry in child1 and two in child2
C19_Witness ==
    /\ pc = "return"
    /\ Len(arg[1]) = 2 /\ Len(arg[2]) = 1
    /\ arg[2][1] = arg[1][1] /\ arg[1][2] # arg[1][1]
    /\ ret.child1 \o ret.child2 # arg[1] \o arg[2]
    /\ Len(ret.child1) = 1 /\ Len(ret.child2) = 2

\* ---------------------------------------------------------------- C20
\* the entries of the heap that _mutate changed
Changed == {e \in DOMAIN arg.heap : ret.heap[e] # arg.heap[e]}
\* entry e differs from what it was in nothing but the fields named
OnlyFields(e, fields) ==
    \A f \in DOMAIN arg.heap[e] : f \notin fields => ret.heap[e][f] = arg.heap[e][f]

\* C20: _mutate applies one of three variants to an individual with an
\* entry: time_shift adds one offset of -30..30 minutes to departure_time
\* and arrival_time of one entry; train_swap exchanges the train ids of two
\* distinct entries of the list (nothing with fewer than two entries);
\* route_change changes nothing.  The entries of the individual, their
\* number, every route id and every passenger load stay as they were, and an
\* individual without entries is returned unchanged.
C20_MutateVariants ==
    pc = "return" =>
        /\ ret.individual = arg.individual
        /\ DOMAIN ret.heap = DOMAIN arg.heap
        /\ \A e \in DOMAIN arg.heap :
              /\ ret.heap[e].route_id = arg.heap[e].route_id
              /\ ret.heap[e].passenger_load = arg.heap[e].passenger_load
        /\ IF arg.individual = <<>>
           THEN Changed = {}
           ELSE ret.mutation_type \in {"time_shift", "train_swap", "route_change"}
        /\ ret.mutation_type = "route_change" => Changed = {}
        /\ ret.mutation_type = "time_shift" =>
              \E idx \in 1..Len(arg.individual) : \E shift \in -30..30 :
                  LET e == arg.individual[idx]
                  IN  /\ Changed \subseteq {e}
                      /\ OnlyFields(e, {"departure_time", "arrival_time"})
                      /\ ret.heap[e].departure_time - arg.heap[e].departure_time = shift
                      /\ ret.heap[e].arrival_time - arg.heap[e].arrival_time = shift
        /\ ret.mutation_type = "train_swap" =>
              IF Len(arg.individual) < 2 THEN Changed = {}
              ELSE \E idx1, idx2 \in 1..Len(arg.individual) :
                      LET e1 == arg.individual[idx1]
                          e2 == arg.individual[idx2]
                      IN  /\ idx1 # idx2
                          /\ Changed \subseteq {e1, e2}
                          /\ OnlyFields(e1, {"train_id"}) /\ OnlyFields(e2, {"train_id"})
                          /\ ret.heap[e1].train_id = arg.heap[e2].train_id
                          /\ ret.heap[e2].train_id = arg.heap[e1].train_id

\* C20's case: a time_shift by a non-zero offset has moved an entry that the
\* individual holds twice
C20_Witness ==
    /\ pc = "return"
    /\ ret.mutation_type = "time_shift"
    /\ Len(arg.individual) = 2 /\ arg.individual[1] = arg.individual[2]
    /\ ret.heap[arg.individual[1]].departure_time
         = arg.heap[arg.individual[1]].departure_time - 30

\* ---------------------------------------------------------------- C21
\* the entries an individual holds, and those the individuals of a list hold
EntriesOf(individual) == {individual[k] : k \in 1..Len(individual)}
EntriesIn(individuals) ==
    UNION {EntriesOf(individuals[i]) : i \in 1..Len(individuals)}
\* what an individual reads from its entries in a heap
View(individual, heap_) == [k \in 1..Len(individual) |-> heap_[individual[k]]]

\* C21: _generate_offspring creates no schedule entry: every entry of every
\* offspring, crossed over or copied, is an entry of an individual of the
\* population, and every entry that a mutation of a child has changed is
\* held by an individual of the population, which reads the changed values
\* from it.
C21_ChildrenShareEntries ==
    pc = "return" =>
        /\ Len(ret.heap) = Len(arg.heap)
        /\ EntriesIn(ret.offspring) \subseteq EntriesIn(arg.population)
        /\ \A e \in 1..Len(arg.heap) :
              ret.heap[e] # arg.heap[e] =>
                  \E i \in 1..Len(arg.population) :
                      /\ e \in EntriesOf(arg.population[i])
                      /\ View(arg.population[i], ret.heap)
                            # View(arg.population[i], arg.heap)

\* C21's case: a mutation has changed an entry that both offspring and both
\* individuals of the population hold
C21_Witness ==
    /\ pc = "return"
    /\ Len(arg.population) = 2 /\ Len(ret.offspring) = 2
    /\ \E e \in 1..Len(arg.heap) :
          /\ ret.heap[e] # arg.heap[e]
          /\ e \in EntriesOf(ret.offspring[1]) \cap EntriesOf(ret.offspring[2])
          /\ e \in EntriesOf(arg.population[1]) \cap EntriesOf(arg.population[2])
          /\ View(arg.population[1], ret.heap) # View(arg.population[1], arg.heap)
          /\ View(arg.population[2], ret.heap) # View(arg.population[2], arg.heap)

\* ---------------------------------------------------------------- C22
\* the entries of an individual whose passenger load is above the capacity
\* of their train
Overloaded(individual, heap_) ==
    {e \in EntriesOf(individual) :
        heap_[e].passenger_load > MutateCapacity[heap_[e].train_id]}

\* C22: the passenger load of every schedule entry of an individual is at
\* most the capacity of the entry's train, before _mutate and after it (so
\* that passenger_load / capacity * 100 is at most 100).
C22_LoadWithinCapacity ==
    /\ pc = "call" => Overloaded(arg.individual, arg.heap) = {}
    /\ pc = "return" => Overloaded(ret.individual, ret.heap) = {}

\* ---------------------------------------------------------------- C23
\* the step in which a restart request for task_id is refused, and the step
\* in which one dispatches a run (only create and restart dispatch, and
\* create adds a row)
Refused(task_id) ==
    /\ response' # response
    /\ response'.request = "restart"
    /\ response'.task_id = task_id
    /\ response'.status # 200
Restarted(task_id) ==
    /\ Len(dispatched') = Len(dispatched) + 1
    /\ Len(db') = Len(db)
    /\ dispatched'[Len(dispatched')].task_id = task_id

\* C23: a restart request is refused exactly on a task that is not 'failed',
\* with status 400 and the error 'Only failed tasks can be restarted', and
\* then no row changes and nothing is dispatched; a restart that dispatches
\* does so on a 'failed' task only, answers 200, sets the task 'pending' with
\* start_time, end_time, error_message and results cleared and the other
\* fields and rows as they were, and dispatches one run, due at once, with
\* the task's own task_id, optimization_type and parameters.
C23_RestartOnlyFailed ==
    [][\A task_id \in DOMAIN db :
          /\ Refused(task_id) =>
                /\ db[task_id].status # "failed"
                /\ response'.status = 400
                /\ response'.data = [error |-> "Only failed tasks can be restarted"]
                /\ db' = db
                /\ dispatched' = dispatched
                /\ broker' = broker
                /\ workers' = workers
          /\ Restarted(task_id) =>
                /\ db[task_id].status = "failed"
                /\ response' = [request |-> "restart", task_id |-> task_id,
                                status |-> 200,
                                data |-> [message |-> "Task restarted successfully"]]
                /\ db' = [db EXCEPT ![task_id] =
                             [optimization_type |-> db[task_id].optimization_type,
                              parameters |-> db[task_id].parameters,
                              status |-> "pending",
                              start_time |-> "None",
                              end_time |-> "None",
                              error_message |-> "",
                              results |-> "{}"]]
                /\ dispatched' = Append(dispatched,
                                        [task_id |-> task_id,
                                         optimization_type |-> db[task_id].optimization_type,
                                         parameters |-> db[task_id].parameters,
                                         executions |-> 0,
                                         outcomes |-> <<>>])
                /\ broker \subseteq broker'
                /\ Cardinality(broker' \ broker) = 1
                /\ \A m \in broker' \ broker :
                      /\ m.task_id = task_id
                      /\ m.optimization_type = db[task_id].optimization_type
                      /\ m.parameters = db[task_id].parameters
                      /\ m.retries = 0 /\ m.countdown = 0
                /\ workers' = workers]_vars

\* C23's case: a failed task has been restarted: it is 'pending' with its
\* fields cleared, and the run dispatched by the restart has not started
C23_Witness ==
    /\ response = [request |-> "restart", task_id |-> 1, status |-> 200,
                   data |-> [message |-> "Task restarted successfully"]]
    /\ Len(dispatched) = 2
    /\ dispatched[1].outcomes # <<>>
    /\ dispatched[2].task_id = 1 /\ dispatched[2].executions = 0
    /\ db[1].status = "pending"
    /\ db[1].start_time = "None" /\ db[1].end_time = "None"
    /\ db[1].error_message = "" /\ db[1].results = "{}"

\* ---------------------------------------------------------------- C24
\* the step in which an execution of dispatch d ends with the optimizer's
\* 'no data available' result returned
ReturnsNoData(d) ==
    /\ Len(dispatched') = Len(dispatched)
    /\ dispatched'[d].outcomes = Append(dispatched[d].outcomes, "returned")
    /\ db'[dispatched[d].task_id].results = ErrorResult

\* C24: when the optimizer returns the 'no data available' result, the
\* execution ends with the task 'completed', that result stored in results,
\* the task's error_message as it was, and no retry scheduled.
C24_NoDataCompletes ==
    [][\A d \in DOMAIN dispatched :
          ReturnsNoData(d) =>
              LET task_id == dispatched[d].task_id
              IN  /\ db'[task_id].status = "completed"
                  /\ db'[task_id].results = ErrorResult
                  /\ db'[task_id].error_message = db[task_id].error_message
                  /\ broker' = broker]_vars

\* ---------------------------------------------------------------- C25
\* C25: a task of a type other than 'multi_objective' (dqn, schedule, route,
\* fuel) is run by an optimizer entry point that handles its type: no
\* execution of such a task raises, and the task is never left 'failed'.
C25_OtherTypesHandled ==
    /\ \A task_id \in DOMAIN db :
          db[task_id].optimization_type # "multi_objective" =>
              db[task_id].status # "failed"
    /\ \A d \in DOMAIN dispatched :
          dispatched[d].optimization_type # "multi_objective" =>
              \A k \in DOMAIN dispatched[d].outcomes :
                  dispatched[d].outcomes[k] = "returned"

\* ---------------------------------------------------------------- C26
\* C26: _non_dominated_sort returns fronts, and inside every front the
\* indices are listed in ascending order.
C26_FrontsAscending ==
    pc = "return" =>
        /\ ret.exc = "none"
        /\ \A k \in 1..Len(ret.value) :
              \A p, q \in 1..Len(ret.value[k]) :
                  p < q => ret.value[k][p] < ret.value[k][q]

\* ---------------------------------------------------------------- C27
\* the busy trains of the environment that are on route r
TrainsOn(env, r) ==
    {t \in env.trains : env.train_states[t].busy /\ env.train_states[t].current_route = r}

\* C27: in every state of the environment reached from reset by steps with
\* the actions 0..3, the active_trains of each route is the number of busy
\* trains whose current_route is that route (so it lies between 0 and the
\* number of trains), and a train is busy exactly when it has a current
\* route.
C27_ActiveTrainsCounted ==
    /\ \A r \in environment.routes :
          /\ environment.route_states[r].active_trains
                = Cardinality(TrainsOn(environment, r))
          /\ environment.route_states[r].active_trains \in
                0..Cardinality(environment.trains)
    /\ \A t \in environment.trains :
          environment.train_states[t].busy
            <=> environment.train_states[t].current_route # 0

\* C27's case: a step with action 2 has moved a busy train from one route
\* to another, which now counts it while the old route counts none
C27_Witness ==
    /\ pc = "step"
    /\ arg.action = 2
    /\ \E t \in environment.trains :
          LET old_route == arg.before.train_states[t].current_route
              new_route == environment.train_states[t].current_route
          IN  /\ arg.before.train_states[t].busy
              /\ environment.train_states[t].busy
              /\ new_route # old_route
              /\ environment.route_states[new_route].active_trains = 1
              /\ environment.route_states[old_route].active_trains = 0
              /\ arg.before.route_states[old_route].active_trains = 1

\* ---------------------------------------------------------------- C28
\* every individual of the list holds MinTrips to MaxTrips entries
TripsInRange(individuals) ==
    \A i \in 1..Len(individuals) :
        /\ Len(individuals[i]) >= MinTrips
        /\ Len(individuals[i]) <= MaxTrips
        /\ individuals[i] # <<>>

\* C28: every individual built by _initialize_population holds between the
\* least and the greatest number of trips (10 and 30 in the code, MinTrips
\* and MaxTrips here), and so does every offspring that _generate_offspring
\* makes, by crossover, copy and mutation, of a population whose individuals
\* do; the population itself is left with the lists it had.  No individual
\* is empty.
C28_TripsInRange ==
    /\ pc = "initialised" => ret.exc = "none" /\ TripsInRange(ret.population)
    /\ pc = "call" => TripsInRange(arg.population)
    /\ pc = "return" =>
          /\ TripsInRange(arg.population)
          /\ TripsInRange(ret.offspring)
          /\ Len(ret.offspring) = 2 * (Len(arg.population) \div 2)

\* C28's case: a parent with the least and a parent with the greatest number
\* of entries have been crossed over: the second child is a list that no
\* individual of the population is
C28_Witness ==
    /\ pc = "return"
    /\ Len(arg.population) = 2
    /\ Len(arg.population[1]) = MinTrips /\ Len(arg.population[2]) = MaxTrips
    /\ Len(ret.offspring) = 2
    /\ ret.offspring[2] # arg.population[1] /\ ret.offspring[2] # arg.population[2]
    /\ Len(ret.offspring[1]) < Len(ret.offspring[2])

\* ---------------------------------------------------------------- C29
\* C29: 'completed' is terminal: no step changes the status or the results
\* of a task whose status is 'completed'.
C29_CompletedIsTerminal ==
    [][\A task_id \in DOMAIN db :
          db[task_id].status = "completed" =>
              /\ db'[task_id].status = "completed"
              /\ db'[task_id].results = db[task_id].results]_vars

\* ---------------------------------------------------------------- C30
\* C30: the recorded fields of a task agree with its status: a 'completed'
\* task has an empty error_message, and a 'running' task has no end_time.
C30_FieldsAgreeWithStatus ==
    \A task_id \in DOMAIN db :
        /\ db[task_id].status = "completed" => db[task_id].error_message = ""
        /\ db[task_id].status = "running" => db[task_id].end_time = "None"

====
